---------------------------- MODULE Spec2Model ----------------------------
(***************************************************************************)
(* A model of the traversal core of scripts/xlb_rag_pipeline.py: the       *)
(* budgeted explore loop, its candidate builder and the iterative search.  *)
(*                                                                         *)
(* Python strings are modelled as sequences of one-character strings, so   *)
(* that strip / lower / prefix tests / splitting are computed as the code  *)
(* computes them.  The only whitespace character of the model is " ".      *)
(***************************************************************************)
EXTENDS Integers, Sequences, FiniteSets, TLC

(***************************************************************************)
(* String primitives (Python str methods and the regexes the code uses).   *)
(***************************************************************************)

\* str.lower() on one character, for the upper-case letters the model uses.
LowerChar(c) ==
    CASE c = "A" -> "a" [] c = "B" -> "b" [] c = "C" -> "c"
      [] c = "L" -> "l" [] c = "T" -> "t" [] c = "X" -> "x"
      [] OTHER -> c

\* The code point of a character (Python compares strings by code point).
Ord(c) ==
    CASE c = " " -> 32 [] c = "-" -> 45 [] c = "/" -> 47 [] c = ":" -> 58
      [] c = ">" -> 62 [] c = "?" -> 63
      [] c = "A" -> 65 [] c = "B" -> 66 [] c = "C" -> 67 [] c = "L" -> 76
      [] c = "T" -> 84 [] c = "X" -> 88
      [] c = "a" -> 97 [] c = "b" -> 98 [] c = "c" -> 99 [] c = "d" -> 100
      [] c = "e" -> 101 [] c = "h" -> 104 [] c = "i" -> 105 [] c = "l" -> 108
      [] c = "m" -> 109 [] c = "n" -> 110 [] c = "o" -> 111 [] c = "r" -> 114
      [] c = "s" -> 115 [] c = "t" -> 116 [] c = "x" -> 120
      [] OTHER -> 0

Lower(s) == [i \in 1..Len(s) |-> LowerChar(s[i])]

RECURSIVE LStrip(_)
LStrip(s) == IF s # <<>> /\ s[1] = " " THEN LStrip(Tail(s)) ELSE s

RECURSIVE RStripCh(_, _)
RStripCh(s, c) ==
    IF s # <<>> /\ s[Len(s)] = c THEN RStripCh(SubSeq(s, 1, Len(s) - 1), c) ELSE s

RStrip(s) == RStripCh(s, " ")

Strip(s) == RStrip(LStrip(s))

StartsWith(s, p) == Len(s) >= Len(p) /\ SubSeq(s, 1, Len(p)) = p

EndsWith(s, p) == Len(s) >= Len(p) /\ SubSeq(s, Len(s) - Len(p) + 1, Len(s)) = p

Drop(s, n) == SubSeq(s, n + 1, Len(s))

\* re.sub(r"\s+", " ", s): every run of whitespace becomes one space.
RECURSIVE CollapseWs(_)
CollapseWs(s) ==
    IF s = <<>> THEN <<>>
    ELSE IF s[1] = " " THEN <<" ">> \o CollapseWs(LStrip(s))
    ELSE <<s[1]>> \o CollapseWs(Tail(s))

\* s.split(c): the parts between the occurrences of c (empty parts kept).
RECURSIVE SplitAcc(_, _, _)
SplitAcc(s, c, cur) ==
    IF s = <<>> THEN <<cur>>
    ELSE IF s[1] = c THEN <<cur>> \o SplitAcc(Tail(s), c, <<>>)
    ELSE SplitAcc(Tail(s), c, Append(cur, s[1]))

Split(s, c) == SplitAcc(s, c, <<>>)

\* Python's < on strings: lexicographic by code point.
RECURSIVE StrLess(_, _)
StrLess(a, b) ==
    IF b = <<>> THEN FALSE
    ELSE IF a = <<>> THEN TRUE
    ELSE IF Ord(a[1]) # Ord(b[1]) THEN Ord(a[1]) < Ord(b[1])
    ELSE StrLess(Tail(a), Tail(b))

\* re.match(r"^[Xx][Ll][Bb]\s+", text)
HasXlbPrefix(text) ==
    /\ Len(text) >= 4
    /\ Lower(SubSeq(text, 1, 3)) = <<"x", "l", "b">>
    /\ text[4] = " "

(***************************************************************************)
(* Title and key canonicalisation.                                         *)
(***************************************************************************)

\* resolve_title_from_input raises ValueError("empty input") on a blank
\* input.  Its two other raises need an empty capture of (.+) after strip,
\* which the regexes never produce.
ResolveRaises(raw_input) == Strip(raw_input) = <<>>

\* The body of resolve_title_from_input on the stripped text.  The third
\* form (the CJK "query xlb <topic>" phrasing) needs characters outside the
\* model's alphabet and never matches here.
ResolveStripped(text) ==
    IF StartsWith(text, <<">">>) THEN text
    ELSE IF HasXlbPrefix(text) /\ LStrip(Drop(text, 3)) # <<>> THEN Strip(Drop(text, 3))
    ELSE text

\* resolve_title_from_input, for an input on which it does not raise.
resolve_title_from_input(raw_input) == ResolveStripped(Strip(raw_input))

\* `if value.endswith(":"): value = value[:-1].rstrip()`
CutColon(value) ==
    IF EndsWith(value, <<":">>) THEN RStrip(SubSeq(value, 1, Len(value) - 1)) ELSE value

_canonical_edge_key(exec_title) == Lower(CutColon(Strip(exec_title)))

_canonical_topic_key(value) == RStripCh(CollapseWs(Lower(Strip(value))), "/")

StripAll(parts) == [i \in 1..Len(parts) |-> Strip(parts[i])]

\* The parts of text.split("/") that are non-empty after strip, stripped.
NonEmptyParts(text) == SelectSeq(StripAll(Split(text, "/")), LAMBDA p : p # <<>>)

\* root_topic_from_title resolves an xlb-prefixed title first (a stripped
\* text with that prefix is never blank, so the resolve cannot raise).
ResolveIfXlb(text) == IF HasXlbPrefix(text) THEN resolve_title_from_input(text) ELSE text

\* The leading directive marker is dropped: "->", ">" or "??".
StripMarker(text) ==
    IF StartsWith(text, <<"-", ">">>) THEN LStrip(Drop(text, 2))
    ELSE IF StartsWith(text, <<">">>) THEN LStrip(Drop(text, 1))
    ELSE IF StartsWith(text, <<"?", "?">>) THEN LStrip(Drop(text, 2))
    ELSE text

FirstPart(parts) == IF parts = <<>> THEN <<>> ELSE parts[1]

root_topic_from_title(raw_title) ==
    FirstPart(NonEmptyParts(Strip(RStripCh(StripMarker(ResolveIfXlb(Strip(raw_title))), ":"))))

\* The body of _to_input_from_exec_title on the stripped value.
InputFromStripped(value) ==
    IF value = <<>> THEN <<>>
    ELSE IF HasXlbPrefix(value) THEN value
    ELSE IF StartsWith(value, <<">">>) \/ StartsWith(value, <<"?", "?">>)
         THEN <<"x", "l", "b", " ">> \o value
    ELSE <<"x", "l", "b", " ", ">">> \o value

_to_input_from_exec_title(exec_title) == InputFromStripped(Strip(exec_title))

\* input_title: resolve_title_from_input(input_text), the text itself if
\* that raises.
InputTitle(input_text) ==
    IF ResolveRaises(input_text) THEN input_text ELSE resolve_title_from_input(input_text)

\* The body of _normalize_seed_input on the stripped seed.
SeedFromStripped(text) ==
    IF text = <<>> THEN <<>>
    ELSE IF HasXlbPrefix(text) THEN text
    ELSE _to_input_from_exec_title(InputTitle(text))

_normalize_seed_input(seed_input) == SeedFromStripped(Strip(seed_input))

\* topic_section_inputs(topic_root), for a non-blank topic_root: the three
\* follow-up inputs of a topic.
SearchinInput(topic_root) ==
    <<"x", "l", "b", " ", ">">> \o Strip(topic_root) \o <<"/", "s", "e", "a", "r", "c", "h", "i", "n", ":">>

CommandInput(topic_root) ==
    <<"x", "l", "b", " ", ">">> \o Strip(topic_root) \o <<"/", "c", "o", "m", "m", "a", "n", "d", ":">>

BacklinkInput(topic_root) ==
    <<"x", "l", "b", " ", "-", ">">> \o Strip(topic_root) \o <<"/", ":">>

(***************************************************************************)
(* Navigation payloads and candidate generation.                           *)
(*                                                                         *)
(* A navigation entry is [query_kind, query_source, query_exec_title]; its *)
(* title and query_cmd are only copied through by the code and decide      *)
(* nothing, so they are left out.  Kinds, sources and strategies are       *)
(* labels and stay TLA+ strings.                                           *)
(***************************************************************************)

\* str(x).lower() order of the kind labels (alphabetical rank).
KindOrd(kind) ==
    CASE kind = "backlink" -> 1 [] kind = "kb_search" -> 2 [] kind = "query" -> 3
      [] kind = "topic_lookup" -> 4 [] kind = "topic_nav" -> 5
      [] kind = "unknown" -> 6 [] OTHER -> 0

\* `str(item.get("query_kind", "")).strip() or "unknown"`
KindOf(item) == IF item.query_kind = "" THEN "unknown" ELSE item.query_kind

SourceOf(item) == IF item.query_source = "" THEN "unknown" ELSE item.query_source

\* Variant: the "mixed" strategy begins with the knowledge_search entry.
RECURSIVE InterleaveSearchFirst(_, _)
InterleaveSearchFirst(a, b) ==
    IF a = <<>> THEN b
    ELSE IF b = <<>> THEN a
    ELSE <<b[1], a[1]>> \o InterleaveSearchFirst(Tail(a), Tail(b))

\* The "mixed" strategy: topic_nav[i], kb_search[i] for i = 0, 1, ...
RECURSIVE Interleave(_, _)
Interleave(a, b) ==
    IF a = <<>> THEN b
    ELSE IF b = <<>> THEN a
    ELSE <<a[1], b[1]>> \o Interleave(Tail(a), Tail(b))

\* The dedup key of build_navigation_candidates.
NavKey(item) ==
    <<KindOf(item), SourceOf(item), _canonical_edge_key(Strip(item.query_exec_title))>>

\* The dedup loop of build_navigation_candidates: keeps an entry unless its
\* exec title is blank or its (kind, source, canonical key) was seen.
RECURSIVE NavDedup(_, _)
NavDedup(ordered, seen) ==
    IF ordered = <<>> THEN <<>>
    ELSE IF Strip(ordered[1].query_exec_title) = <<>> \/ NavKey(ordered[1]) \in seen
         THEN NavDedup(Tail(ordered), seen)
    ELSE <<ordered[1]>> \o NavDedup(Tail(ordered), seen \cup {NavKey(ordered[1])})

\* The order in which build_navigation_candidates lists the entries.
NavOrdered(nav, strategy) ==
    IF strategy = "search_first" THEN nav.knowledge_search \o nav.topic_navigation
    ELSE IF strategy = "mixed" THEN Interleave(nav.topic_navigation, nav.knowledge_search)
    ELSE nav.topic_navigation \o nav.knowledge_search

build_navigation_candidates(nav, strategy, include_other_queries) ==
    NavDedup(NavOrdered(nav, strategy) \o (IF include_other_queries THEN nav.other_queries ELSE <<>>), {})

\* Variant: the default strategy ranks the command section first.
SourcePriorityCommandFirst(edge_strategy, source) ==
    IF edge_strategy = "mixed_backlink"
    THEN CASE source = "searchin_section" -> 0 [] source = "command_section" -> 0
           [] source = "backlink" -> 1 [] OTHER -> 9
    ELSE CASE source = "command_section" -> 0 [] source = "searchin_section" -> 1
           [] source = "backlink" -> 2 [] OTHER -> 9

\* source_priority.get(source, 9) under each edge strategy.
SourcePriority(edge_strategy, source) ==
    IF edge_strategy = "command_searchin_backlink"
    THEN CASE source = "command_section" -> 0 [] source = "searchin_section" -> 1
           [] source = "backlink" -> 2 [] OTHER -> 9
    ELSE IF edge_strategy = "mixed_backlink"
    THEN CASE source = "searchin_section" -> 0 [] source = "command_section" -> 0
           [] source = "backlink" -> 1 [] OTHER -> 9
    ELSE CASE source = "searchin_section" -> 0 [] source = "command_section" -> 1
           [] source = "backlink" -> 2 [] OTHER -> 9

\* topic_key: `_canonical_topic_key(root_topic_from_title(exec_title))`
TopicKeyOfTitle(title) == _canonical_topic_key(root_topic_from_title(title))

\* `topic_key and topic_key in visited_topics`
TopicVisited(topic_key, visited_topics) == topic_key # <<>> /\ topic_key \in visited_topics

\* Variant: a visited topic rejects an entry of any kind.
TopicFilteredAnyKind(kind, topic_key, visited_topics) == TopicVisited(topic_key, visited_topics)

\* The topic-level visited filter of _append_nav: only topic_nav and backlink
\* entries are rejected for a visited topic.
TopicFiltered(kind, topic_key, visited_topics) ==
    kind \in {"topic_nav", "backlink"} /\ TopicVisited(topic_key, visited_topics)

\* The exec-level filter shared by _append_nav and _append_backlinks.
ExecFiltered(exec_key, seen_exec, visited_exec) ==
    exec_key = <<>> \/ exec_key \in seen_exec \/ exec_key \in visited_exec

\* A candidate record (title and query_cmd left out, see above).
Candidate(kind, query_source, exec_title, source, edge_strategy) ==
    [query_kind |-> kind, query_source |-> query_source, query_exec_title |-> exec_title, input |-> _to_input_from_exec_title(exec_title), source |-> source, priority |-> SourcePriority(edge_strategy, source), topic_key |-> TopicKeyOfTitle(exec_title)]

\* Variant: the key of an appended candidate is not remembered.
AcceptForgetsKey(acc, cand) ==
    [out |-> Append(acc.out, cand), seen_exec |-> acc.seen_exec]

\* acc = [out, seen_exec]: the candidate is appended and its key remembered.
Accept(acc, cand) ==
    [out |-> Append(acc.out, cand), seen_exec |-> acc.seen_exec \cup {_canonical_edge_key(cand.query_exec_title)}]

\* One iteration of _append_nav, for the entry `item` with stripped exec title.
AppendNavItem(acc, item, exec_title, source, visited_exec, visited_topics, edge_strategy) ==
    IF \/ exec_title = <<>>
       \/ ExecFiltered(_canonical_edge_key(exec_title), acc.seen_exec, visited_exec)
       \/ TopicFiltered(KindOf(item), TopicKeyOfTitle(exec_title), visited_topics)
    THEN acc
    ELSE Accept(acc, Candidate(KindOf(item), SourceOf(item), exec_title, source, edge_strategy))

RECURSIVE AppendNav(_, _, _, _, _, _)
AppendNav(acc, items, source, visited_exec, visited_topics, edge_strategy) ==
    IF items = <<>> THEN acc
    ELSE AppendNav(AppendNavItem(acc, items[1], Strip(items[1].query_exec_title), source, visited_exec, visited_topics, edge_strategy), Tail(items), source, visited_exec, visited_topics, edge_strategy)

\* One iteration of _append_backlinks, for the stripped input `text` and its
\* resolved title.
AppendBacklinkItem(acc, text, title, visited_exec, visited_topics, edge_strategy) ==
    IF \/ text = <<>>
       \/ ExecFiltered(_canonical_edge_key(title), acc.seen_exec, visited_exec)
       \/ TopicVisited(TopicKeyOfTitle(title), visited_topics)
    THEN acc
    ELSE Accept(acc, Candidate("backlink", "graph", title, "backlink", edge_strategy))

RECURSIVE AppendBacklinks(_, _, _, _, _)
AppendBacklinks(acc, inputs, visited_exec, visited_topics, edge_strategy) ==
    IF inputs = <<>> THEN acc
    ELSE AppendBacklinks(AppendBacklinkItem(acc, Strip(inputs[1]), InputTitle(Strip(inputs[1])), visited_exec, visited_topics, edge_strategy), Tail(inputs), visited_exec, visited_topics, edge_strategy)

\* The sort key (priority, kind.lower(), exec_title.lower()), compared as
\* Python compares tuples.
CandLess(x, y) ==
    IF x.priority # y.priority THEN x.priority < y.priority
    ELSE IF KindOrd(x.query_kind) # KindOrd(y.query_kind) THEN KindOrd(x.query_kind) < KindOrd(y.query_kind)
    ELSE StrLess(Lower(x.query_exec_title), Lower(y.query_exec_title))

\* list.sort is stable: x goes after every element that is not greater.
RECURSIVE InsertSorted(_, _)
InsertSorted(sorted, x) ==
    IF sorted = <<>> THEN <<x>>
    ELSE IF CandLess(x, sorted[1]) THEN <<x>> \o sorted
    ELSE <<sorted[1]>> \o InsertSorted(Tail(sorted), x)

RECURSIVE SortFrom(_, _)
SortFrom(todo, sorted) ==
    IF todo = <<>> THEN sorted ELSE SortFrom(Tail(todo), InsertSorted(sorted, todo[1]))

\* out.sort(key=...)
SortCands(out) == SortFrom(out, <<>>)

Min2(a, b) == IF a < b THEN a ELSE b

Max2(a, b) == IF a > b THEN a ELSE b

\* Variant: the cut keeps one candidate more than asked.
TruncateOneMore(out, max_candidates) == SubSeq(out, 1, Min2(Len(out), Max2(1, max_candidates) + 1))

\* out[: max(1, int(max_candidates))]
Truncate(out, max_candidates) == SubSeq(out, 1, Min2(Len(out), Max2(1, max_candidates)))

\* The candidates that pass the filters, in merge order (before the sort):
\* searchin entries, then command entries, then backlinks.
MergedCandidates(searchin_navigation, command_navigation, backlink_inputs, visited_exec, visited_topics, edge_strategy, include_other_queries) ==
    AppendBacklinks(
        AppendNav(
            AppendNav([out |-> <<>>, seen_exec |-> {}],
                      build_navigation_candidates(searchin_navigation, "topic_first", include_other_queries),
                      "searchin_section", visited_exec, visited_topics, edge_strategy),
            build_navigation_candidates(command_navigation, "topic_first", include_other_queries),
            "command_section", visited_exec, visited_topics, edge_strategy),
        backlink_inputs, visited_exec, visited_topics, edge_strategy).out

build_explore_candidates(searchin_navigation, command_navigation, backlink_inputs, visited_exec, visited_topics, edge_strategy, include_other_queries, max_candidates) ==
    Truncate(SortCands(MergedCandidates(searchin_navigation, command_navigation, backlink_inputs, visited_exec, visited_topics, edge_strategy, include_other_queries)), max_candidates)

(***************************************************************************)
(* Bounds and the small universe the collaborators answer from.            *)
(***************************************************************************)

MaxSteps == 3
MaxDepth == 1
MaxBranching == 2
MaxCandidates == 2

\* Clock readings (elapsed seconds) and time budgets; a budget of 0
\* disables the time limit.
Ticks == {0, 1}

xlb == <<"x", "l", "b", " ">>

\* Seeds: an xlb form with a trailing colon, a bare title, and a blank one.
Seeds == { xlb \o <<">", "A", "/", ":">>, <<">", "b", "/">>, <<" ">> }

\* Titles the single-document collaborator may resolve: none (the input's
\* title is kept), another spelling of topic a, and one with no root topic.
RespTitles == { <<>>, <<">", "a", "/">>, <<">">> }

NavEntry(kind, source, exec_title) ==
    [query_kind |-> kind, query_source |-> source, query_exec_title |-> exec_title]

EmptyNav == [topic_navigation |-> <<>>, knowledge_search |-> <<>>, other_queries |-> <<>>]

TopicNav ==
    [topic_navigation |-> << NavEntry("topic_nav", "searchin", <<">", "c", "/">>),
                             NavEntry("topic_nav", "searchin", <<">", "B", "/">>) >>,
     knowledge_search |-> <<>>,
     other_queries |-> <<>>]

SearchNav ==
    [topic_navigation |-> <<>>,
     knowledge_search |-> << NavEntry("kb_search", "command", <<">", "b", "/">>),
                             NavEntry("kb_search", "command", <<">", "a", "/", "t">>) >>,
     other_queries |-> <<>>]

\* Navigation payloads the searchin section call may return.
SearchinPayloads == { EmptyNav, TopicNav }

\* Navigation payloads the command section call may return.
CommandPayloads == { EmptyNav, SearchNav }

\* upstream_topics lists the graph lookup may return.
BacklinkResponses == { <<>>, << xlb \o <<">", "c", "/">>, xlb \o <<">", "A", "/">> >> }

EdgeStrategies == { "searchin_command_backlink", "command_searchin_backlink", "mixed_backlink" }

\* The strategies the explore loop is run under.
LoopStrategies == { "searchin_command_backlink", "command_searchin_backlink" }

\* Inputs of build_explore_candidates when it is checked on its own.
BothNav ==
    [topic_navigation |-> << NavEntry("topic_nav", "searchin", <<">", "A", "/">>),
                             NavEntry("topic_nav", "searchin", <<>>) >>,
     knowledge_search |-> << NavEntry("kb_search", "command", <<">", "a", "/", "t">>) >>,
     other_queries |-> << NavEntry("", "", <<"?", "?", "c">>) >>]

DupNav ==
    [topic_navigation |-> << NavEntry("topic_nav", "searchin", <<">", "b", "/">>),
                             NavEntry("backlink", "searchin", <<">", "c", "/", ":">>) >>,
     knowledge_search |-> << NavEntry("kb_search", "command", <<">", "B", "/", ":">>),
                             NavEntry("kb_search", "command", <<">", "c", "/", "t">>) >>,
     other_queries |-> <<>>]

CandNavs == { EmptyNav, TopicNav, SearchNav, BothNav, DupNav }

CandBacklinks == { <<>>, << xlb \o <<">", "c", "/">>, xlb \o <<">", "A", "/">> >>, << <<" ">>, <<"b">> >> }

CandExecKeys == { <<">", "a", "/">>, <<">", "c", "/">> }

CandTopicKeys == { <<"a">>, <<"b">> }

\* Visited state loaded before the run: (exec keys, topic keys).
VisitedPreloads == { <<{}, {}>>, << {<<">", "b", "/">>}, {<<"c">>} >> }

(***************************************************************************)
(* explore_loop: state.                                                    *)
(***************************************************************************)
VARIABLES
    seed_input, max_steps, max_depth, max_seconds, max_branching,
    edge_strategy, include_backlinks, include_other_queries,
    queue,            \* the frontier: items [input, depth, via]
    trace,            \* the hops recorded so far
    visited_exec, visited_topics,
    steps_executed, aux_fetch_count,
    elapsed,          \* the last reading of time.monotonic() - start_ts
    stop_reason, status,
    pc,               \* "loop" | "searchin" | "command" | "backlink" | "done" | "idle"
    cur,              \* the hop being expanded (between collaborator calls)
    calls,            \* every collaborator / graph call issued: [kind, input, returncode]
                      \*   (a section or graph call is modelled by its payload; returncode 0)
    c_in,             \* build_explore_candidates on its own: the arguments
    c_out,            \*   the list returned
    c_done,           \*   whether it has returned
    query, limit, max_iter, gain_threshold, low_gain_rounds, follow_query_nodes,
    frontier,         \* iterative_search: the queries still to search
    seen_node_ids, seen_query_cmds,
    rounds,           \* the ledger, one entry per search
    low_gain_streak,
    iter_stop_reason, \* iterative_search's local stop_reason
    ipc,              \* "round" | "done" | "idle"
    iter_result,      \* the dict iterative_search returns (NoResult before)
    args, ret, called, \* a function checked on its own: arguments, value, whether applied
    meta_file,        \* ingest-if-needed: [state, raw_sha, pipeline_version]
    raw_text,         \*   the markdown file's text
    expected_pipeline_version,
    runs,             \*   how many times ingest-if-needed has run
    answer,           \*   the last run: [force, should, raw_sha] (NoAnswer before)
    since_run,        \*   what happened since the last run
    urls,             \* fetch_urls_concurrently: the URLs given
    max_workers,      \*   the size of the worker pool
    uniq,             \*   the URLs submitted, in order
    task,             \*   per submitted URL: "queued", "running", the status returned, "raised"
    collected,        \*   the URLs whose future the caller has consumed
    results,          \*   the records appended so far
    fetched,          \*   the list returned
    fetch_pc          \*   "idle" | "call" | "pool" | "done"

params == <<seed_input, max_steps, max_depth, max_seconds, max_branching, edge_strategy, include_backlinks, include_other_queries>>

loopvars == <<params, queue, trace, visited_exec, visited_topics, steps_executed, aux_fetch_count, elapsed, stop_reason, status, pc, cur, calls>>

candvars == <<c_in, c_out, c_done>>

iterparams == <<query, limit, max_iter, gain_threshold, low_gain_rounds, follow_query_nodes>>

itervars == <<iterparams, frontier, seen_node_ids, seen_query_cmds, rounds, low_gain_streak, iter_stop_reason, ipc, iter_result>>

fnvars == <<args, ret, called>>

ingestvars == <<meta_file, raw_text, expected_pipeline_version, runs, answer, since_run>>

fetchvars == <<urls, max_workers, uniq, task, collected, results, fetched, fetch_pc>>

vars == <<loopvars, candvars, itervars, fnvars, ingestvars, fetchvars>>

\* What each part of the model leaves alone.
outside_loop == <<candvars, itervars, fnvars, ingestvars, fetchvars>>

outside_cand == <<loopvars, itervars, fnvars, ingestvars, fetchvars>>

outside_iter == <<loopvars, candvars, fnvars, ingestvars, fetchvars>>

outside_fn == <<loopvars, candvars, itervars, ingestvars, fetchvars>>

outside_ingest == <<loopvars, candvars, itervars, fnvars, fetchvars>>

outside_fetch == <<loopvars, candvars, itervars, fnvars, ingestvars>>

NoCur == [input |-> <<>>, depth |-> 0, via |-> "", resolved_title |-> <<>>, root_topic |-> <<>>, searchin_nav |-> EmptyNav, command_nav |-> EmptyNav]

\* A trace hop.  Fields a hop of the code does not carry hold a default
\* (returncode -1, root_topic and enqueued empty).
Hop(input, depth, via, hop_status, resolved_title, root_topic, returncode, enqueued) ==
    [input |-> input, depth |-> depth, via |-> via, status |-> hop_status, resolved_title |-> resolved_title, root_topic |-> root_topic, returncode |-> returncode, enqueued |-> enqueued]

NoCandIn == [searchin |-> EmptyNav, command |-> EmptyNav, backlinks |-> <<>>, visited_exec |-> {}, visited_topics |-> {}, edge_strategy |-> "", include_other_queries |-> FALSE, max_candidates |-> 0]

\* build_explore_candidates is not under check.
CandIdle == c_in = NoCandIn /\ c_out = <<>> /\ c_done = FALSE

\* A gain or a gain threshold, kept as an exact fraction.
Fraction(num, den) == [num |-> num, den |-> den]

\* No function is under check on its own.
FnIdle == args = <<>> /\ ret = <<>> /\ called = FALSE

NoAnswer == [force |-> FALSE, should |-> FALSE, raw_sha |-> ""]

\* fetch_urls_concurrently is not under check.
FetchIdle ==
    /\ urls = <<>> /\ max_workers = 0 /\ uniq = <<>> /\ task = <<>> /\ collected = {}
    /\ results = <<>> /\ fetched = <<>> /\ fetch_pc = "idle"

\* ingest-if-needed is not under check.
IngestIdle ==
    /\ meta_file = [state |-> "missing", raw_sha |-> "", pipeline_version |-> ""] /\ raw_text = "" /\ expected_pipeline_version = ""
    /\ runs = 0 /\ answer = NoAnswer /\ since_run = "idle"

\* The value of iter_result before iterative_search returns.
NoResult == [iterations |-> -1, stop_reason |-> "", unique_hits |-> -1, frontier_remaining |-> -1]

\* iterative_search is not running.
IterIdle ==
    /\ query = <<>> /\ limit = 0 /\ max_iter = 0 /\ gain_threshold = Fraction(0, 1) /\ low_gain_rounds = 0
    /\ follow_query_nodes = FALSE /\ frontier = <<>> /\ seen_node_ids = {} /\ seen_query_cmds = {}
    /\ rounds = <<>> /\ low_gain_streak = 0 /\ iter_stop_reason = "" /\ ipc = "idle" /\ iter_result = NoResult

\* explore_loop is not running.
LoopIdle ==
    /\ seed_input = <<>> /\ max_steps = 0 /\ max_depth = 0 /\ max_seconds = 0 /\ max_branching = 0
    /\ edge_strategy = "" /\ include_backlinks = FALSE /\ include_other_queries = FALSE
    /\ queue = <<>> /\ trace = <<>> /\ visited_exec = {} /\ visited_topics = {}
    /\ steps_executed = 0 /\ aux_fetch_count = 0 /\ elapsed = 0
    /\ stop_reason = "" /\ status = "" /\ pc = "idle" /\ cur = NoCur /\ calls = <<>>

\* Variant: the seed is enqueued without the test for an empty one.
SeedEntryUnchecked(normalized_seed) ==
    /\ queue = << [input |-> normalized_seed, depth |-> 0, via |-> "seed"] >>
    /\ status = "running"
    /\ pc = "loop"

\* `if not normalized_seed: return {... "status": "invalid_seed" ...}`, and
\* the frontier that holds the seed otherwise.
SeedEntry(normalized_seed) ==
    IF normalized_seed = <<>>
    THEN queue = <<>> /\ status = "invalid_seed" /\ pc = "done"
    ELSE /\ queue = << [input |-> normalized_seed, depth |-> 0, via |-> "seed"] >>
         /\ status = "running"
         /\ pc = "loop"

Init ==
    /\ CandIdle
    /\ IterIdle
    /\ FnIdle
    /\ IngestIdle
    /\ FetchIdle
    /\ seed_input \in Seeds
    /\ max_steps \in 0..MaxSteps
    /\ max_depth \in 0..MaxDepth
    /\ max_seconds \in Ticks
    /\ max_branching \in 1..MaxBranching
    /\ edge_strategy \in LoopStrategies
    /\ include_backlinks \in BOOLEAN
    /\ include_other_queries = FALSE
    /\ \E pre \in VisitedPreloads : visited_exec = pre[1] /\ visited_topics = pre[2]
    /\ trace = <<>>
    /\ steps_executed = 0
    /\ aux_fetch_count = 0
    /\ elapsed = 0
    /\ stop_reason = "frontier_exhausted"
    /\ cur = NoCur
    /\ calls = <<>>
    /\ SeedEntry(_normalize_seed_input(seed_input))

(***************************************************************************)
(* explore_loop: the loop.                                                 *)
(***************************************************************************)

\* Variant: the step budget is compared with > instead of >=.
LoopExitOffByOne(q, e, steps, maxsec, maxsteps) ==
    IF q = <<>> THEN "frontier_exhausted"
    ELSE IF maxsec > 0 /\ e >= maxsec THEN "time_budget_exhausted"
    ELSE IF steps > maxsteps THEN "step_budget_exhausted"
    ELSE ""

\* Variant: the budgets are tested before the frontier.
LoopExitBudgetsFirst(q, e, steps, maxsec, maxsteps) ==
    IF maxsec > 0 /\ e >= maxsec THEN "time_budget_exhausted"
    ELSE IF steps >= maxsteps THEN "step_budget_exhausted"
    ELSE IF q = <<>> THEN "frontier_exhausted"
    ELSE ""

\* Variant: the time budget is compared with > instead of >=.
LoopExitTimeOffByOne(q, e, steps, maxsec, maxsteps) ==
    IF q = <<>> THEN "frontier_exhausted"
    ELSE IF maxsec > 0 /\ e > maxsec THEN "time_budget_exhausted"
    ELSE IF steps >= maxsteps THEN "step_budget_exhausted"
    ELSE ""

\* The exit test at the top of the loop: `while queue`, then the time
\* budget, then the step budget.  "" means the loop body runs.
LoopExit(q, e, steps, maxsec, maxsteps) ==
    IF q = <<>> THEN "frontier_exhausted"
    ELSE IF maxsec > 0 /\ e >= maxsec THEN "time_budget_exhausted"
    ELSE IF steps >= maxsteps THEN "step_budget_exhausted"
    ELSE ""

InputKey(input_text) == _canonical_edge_key(InputTitle(input_text))

\* Variant: only keys loaded before the run are honoured (the run's own
\* additions are ignored).
SkipsVisitedPreloadedOnly(input_key, vexec) == input_key # <<>> /\ input_key \in vexec /\ steps_executed = 0

\* `if input_key and input_key in visited_exec`
SkipsVisited(input_key, vexec) == input_key # <<>> /\ input_key \in vexec

\* The clock is read as e and the exit test lets the loop body run.
BodyRuns(e) ==
    /\ LoopExit(queue, e, steps_executed, max_seconds, max_steps) = ""
    /\ elapsed' = e

\* The loop ends: the exit test gives a reason (the clock is read at the
\* test, or after the loop when the frontier is empty).
LoopStop ==
    /\ pc = "loop"
    /\ \E e \in {t \in Ticks : t >= elapsed} :
         /\ LoopExit(queue, e, steps_executed, max_seconds, max_steps) # ""
         /\ stop_reason' = LoopExit(queue, e, steps_executed, max_seconds, max_steps)
         /\ elapsed' = e
    /\ pc' = "done"
    /\ status' = "ok"
    /\ UNCHANGED <<outside_loop, params, queue, trace, visited_exec, visited_topics, steps_executed, aux_fetch_count, cur, calls>>

\* The hop of an item skipped because its key is visited.
SkippedHop(item, input_text) ==
    Hop(input_text, item.depth, item.via, "skipped_visited_exec", InputTitle(input_text), <<>>, -1, <<>>)

\* Variant: the dropped item stays at the head of the frontier.
DropItemKeepsItem(item, input_text) ==
    /\ input_text = <<>> \/ SkipsVisited(InputKey(input_text), visited_exec)
    /\ queue' = queue
    /\ trace' = IF input_text = <<>> THEN trace ELSE Append(trace, SkippedHop(item, input_text))

\* The frontier's head is dropped without a call.
DropItem(item, input_text) ==
    /\ input_text = <<>> \/ SkipsVisited(InputKey(input_text), visited_exec)
    /\ queue' = Tail(queue)
    /\ trace' = IF input_text = <<>> THEN trace ELSE Append(trace, SkippedHop(item, input_text))

\* An item is dequeued and dropped without a call: its input is blank (no
\* hop), or its key is already visited (hop skipped_visited_exec).
SkipItem ==
    /\ pc = "loop"
    /\ \E e \in {t \in Ticks : t >= elapsed} : BodyRuns(e)
    /\ DropItem(Head(queue), Strip(Head(queue).input))
    /\ UNCHANGED <<outside_loop, params, visited_exec, visited_topics, steps_executed, aux_fetch_count, stop_reason, status, pc, cur, calls>>

\* Variant: the depth budget is tested before the return code.
PrimaryStatusDepthFirst(returncode, depth, maxdepth, root_topic) ==
    IF depth >= maxdepth THEN "depth_budget_reached"
    ELSE IF returncode # 0 THEN "execute_failed"
    ELSE IF root_topic = <<>> THEN "no_topic_root"
    ELSE ""

\* Variant: the depth budget is compared with > instead of >=.
PrimaryStatusDepthOffByOne(returncode, depth, maxdepth, root_topic) ==
    IF returncode # 0 THEN "execute_failed"
    ELSE IF depth > maxdepth THEN "depth_budget_reached"
    ELSE IF root_topic = <<>> THEN "no_topic_root"
    ELSE ""

\* The status a hop gets right after the primary call ("" : it is expanded).
PrimaryStatus(returncode, depth, maxdepth, root_topic) ==
    IF returncode # 0 THEN "execute_failed"
    ELSE IF depth >= maxdepth THEN "depth_budget_reached"
    ELSE IF root_topic = <<>> THEN "no_topic_root"
    ELSE ""

\* `str(parsed.get("title", "")).strip() or input_title`
ResolvedTitle(title, input_title) == IF Strip(title) # <<>> THEN Strip(title) ELSE input_title

\* The visited sets after the primary call: the input's key, the resolved
\* title's key and the resolved root topic's key are added when non-empty.
\* Variant: only the resolved title's key is added.
VisitedExecAfterResolvedOnly(vexec, input_key, resolved_key) == vexec \cup ({resolved_key} \ {<<>>})

VisitedExecAfter(vexec, input_key, resolved_key) == vexec \cup ({input_key, resolved_key} \ {<<>>})

VisitedTopicsAfter(vtopics, root_topic_key) == vtopics \cup ({root_topic_key} \ {<<>>})

\* The hop is closed with a terminal status, or kept open for expansion.
PrimaryOutcome(item, input_text, returncode, resolved_title, root_topic, hop_status) ==
    IF hop_status # ""
    THEN /\ trace' = Append(trace, Hop(input_text, item.depth, item.via, hop_status, resolved_title, root_topic, returncode, <<>>))
         /\ cur' = NoCur
         /\ pc' = "loop"
    ELSE /\ trace' = trace
         /\ cur' = [NoCur EXCEPT !.input = input_text, !.depth = item.depth, !.via = item.via, !.resolved_title = resolved_title, !.root_topic = root_topic]
         /\ pc' = "searchin"

\* Variant: only successful calls are billed as steps.
PrimaryRecordBillsSuccess(item, input_text, returncode, resolved_title, root_topic) ==
    /\ steps_executed' = IF returncode = 0 THEN steps_executed + 1 ELSE steps_executed
    /\ visited_exec' = VisitedExecAfter(visited_exec, InputKey(input_text), _canonical_edge_key(resolved_title))
    /\ visited_topics' = VisitedTopicsAfter(visited_topics, _canonical_topic_key(root_topic))
    /\ PrimaryOutcome(item, input_text, returncode, resolved_title, root_topic, PrimaryStatus(returncode, item.depth, max_depth, root_topic))

\* The bookkeeping after run_impl returned (returncode, resolved_title).
PrimaryRecord(item, input_text, returncode, resolved_title, root_topic) ==
    /\ steps_executed' = steps_executed + 1
    /\ visited_exec' = VisitedExecAfter(visited_exec, InputKey(input_text), _canonical_edge_key(resolved_title))
    /\ visited_topics' = VisitedTopicsAfter(visited_topics, _canonical_topic_key(root_topic))
    /\ PrimaryOutcome(item, input_text, returncode, resolved_title, root_topic, PrimaryStatus(returncode, item.depth, max_depth, root_topic))

PrimaryResolved(item, input_text, returncode, resolved_title) ==
    PrimaryRecord(item, input_text, returncode, resolved_title, root_topic_from_title(resolved_title))

\* The frontier's head is executed: run_impl answers (returncode, title).
PrimaryStep(item, input_text, returncode, title) ==
    /\ input_text # <<>>
    /\ ~SkipsVisited(InputKey(input_text), visited_exec)
    /\ queue' = Tail(queue)
    /\ calls' = Append(calls, [kind |-> "primary", input |-> input_text, returncode |-> returncode])
    /\ PrimaryResolved(item, input_text, returncode, ResolvedTitle(title, InputTitle(input_text)))

\* An item is dequeued and the collaborator is called for it.
PrimaryCall ==
    /\ pc = "loop"
    /\ \E e \in {t \in Ticks : t >= elapsed} : BodyRuns(e)
    /\ \E returncode \in {0, 1}, title \in RespTitles :
         PrimaryStep(Head(queue), Strip(Head(queue).input), returncode, title)
    /\ UNCHANGED <<outside_loop, params, aux_fetch_count, stop_reason, status>>

\* The frontier items and the hop's `enqueued` list made from the candidates.
QueueItems(candidates, depth) ==
    [i \in 1..Len(candidates) |-> [input |-> candidates[i].input, depth |-> depth + 1, via |-> candidates[i].source]]

EnqueuedList(candidates) ==
    [i \in 1..Len(candidates) |-> [input |-> candidates[i].input, query_exec_title |-> candidates[i].query_exec_title, query_kind |-> candidates[i].query_kind, source |-> candidates[i].source]]

\* The candidates are appended to the frontier and the hop is recorded.
Enqueue(candidates) ==
    /\ queue' = queue \o QueueItems(candidates, cur.depth)
    /\ trace' = Append(trace, Hop(cur.input, cur.depth, cur.via, "expanded", cur.resolved_title, cur.root_topic, 0, EnqueuedList(candidates)))
    /\ cur' = NoCur
    /\ pc' = "loop"

\* The end of an expansion: candidates are built from the two navigation
\* payloads and the backlink inputs against the current visited sets.
FinishExpand(command_nav, backlink_inputs) ==
    Enqueue(build_explore_candidates(cur.searchin_nav, command_nav, backlink_inputs, visited_exec, visited_topics, edge_strategy, include_other_queries, Max2(1, max_branching)))

\* The searchin section of the hop's root topic is fetched.
SearchinCall ==
    /\ pc = "searchin"
    /\ \E nav \in SearchinPayloads : cur' = [cur EXCEPT !.searchin_nav = nav]
    /\ calls' = Append(calls, [kind |-> "searchin", input |-> SearchinInput(cur.root_topic), returncode |-> 0])
    /\ aux_fetch_count' = aux_fetch_count + 1
    /\ pc' = "command"
    /\ UNCHANGED <<outside_loop, params, queue, trace, visited_exec, visited_topics, steps_executed, elapsed, stop_reason, status>>

\* The command section is fetched.  With backlinks the graph lookup
\* follows; without, the expansion ends here.
CommandCall ==
    /\ pc = "command"
    /\ calls' = Append(calls, [kind |-> "command", input |-> CommandInput(cur.root_topic), returncode |-> 0])
    /\ aux_fetch_count' = aux_fetch_count + 1
    /\ \E nav \in CommandPayloads :
         IF include_backlinks
         THEN /\ cur' = [cur EXCEPT !.command_nav = nav]
              /\ pc' = "backlink"
              /\ UNCHANGED <<queue, trace>>
         ELSE FinishExpand(nav, <<>>)
    /\ UNCHANGED <<outside_loop, params, visited_exec, visited_topics, steps_executed, elapsed, stop_reason, status>>

\* `[str(x).strip() for x in raw_followups if str(x).strip()]`
CleanFollowups(raw_followups) == SelectSeq(StripAll(raw_followups), LAMBDA x : x # <<>>)

\* The graph lookup answers the upstream topics; the expansion ends.
BacklinkCall ==
    /\ pc = "backlink"
    /\ calls' = Append(calls, [kind |-> "backlink", input |-> Drop(BacklinkInput(cur.root_topic), 4), returncode |-> 0])
    /\ \E raw_followups \in BacklinkResponses :
         FinishExpand(cur.command_nav, CleanFollowups(raw_followups))
    /\ UNCHANGED <<outside_loop, params, visited_exec, visited_topics, steps_executed, aux_fetch_count, elapsed, stop_reason, status>>

Next == LoopStop \/ SkipItem \/ PrimaryCall \/ SearchinCall \/ CommandCall \/ BacklinkCall

Spec == Init /\ [][Next]_vars

\* explore_loop with a depth budget that lets the items of the first
\* expansion be expanded in their turn and a step budget that lets an item
\* enqueued by the second expansion be dequeued; the clock is not consulted.
InitDeep ==
    /\ CandIdle
    /\ IterIdle
    /\ FnIdle
    /\ IngestIdle
    /\ FetchIdle
    /\ seed_input \in Seeds
    /\ max_steps = MaxSteps + 1
    /\ max_depth = MaxDepth + 1
    /\ max_seconds = 0
    /\ max_branching = MaxBranching
    /\ edge_strategy \in LoopStrategies
    /\ include_backlinks \in BOOLEAN
    /\ include_other_queries = FALSE
    /\ visited_exec = {}
    /\ visited_topics = {}
    /\ trace = <<>>
    /\ steps_executed = 0
    /\ aux_fetch_count = 0
    /\ elapsed = 0
    /\ stop_reason = "frontier_exhausted"
    /\ cur = NoCur
    /\ calls = <<>>
    /\ SeedEntry(_normalize_seed_input(seed_input))

SpecDeep == InitDeep /\ [][Next]_vars

\* The loop is sequential code and every call it makes returns: as long as
\* it has not returned, it takes its next step.  Next is enabled exactly
\* while pc # "done", so that this is WF_vars(Next) with the enabling
\* condition written out.
SpecFair == Init /\ [][Next]_vars /\ (<>[](pc = "done") \/ []<><<Next>>_vars)

(***************************************************************************)
(* build_explore_candidates on its own: the arguments are drawn, then the  *)
(* function is applied.                                                    *)
(***************************************************************************)

InitCand ==
    /\ LoopIdle
    /\ IterIdle
    /\ FnIdle
    /\ IngestIdle
    /\ FetchIdle
    /\ c_in \in [searchin : CandNavs, command : CandNavs, backlinks : CandBacklinks, visited_exec : SUBSET CandExecKeys, visited_topics : SUBSET CandTopicKeys, edge_strategy : EdgeStrategies, include_other_queries : BOOLEAN, max_candidates : 0..MaxCandidates]
    /\ c_out = <<>>
    /\ c_done = FALSE

BuildCandidates ==
    /\ ~c_done
    /\ c_out' = build_explore_candidates(c_in.searchin, c_in.command, c_in.backlinks, c_in.visited_exec, c_in.visited_topics, c_in.edge_strategy, c_in.include_other_queries, c_in.max_candidates)
    /\ c_done' = TRUE
    /\ UNCHANGED <<c_in, outside_cand>>

NextCand == BuildCandidates

SpecCand == InitCand /\ [][NextCand]_vars

(***************************************************************************)
(* iterative_search.  A hit is [node_id, node_type, query_cmd]; the other   *)
(* fields of a hit are only copied into the ledger.  A gain is the exact    *)
(* fraction new_hits / limit; the thresholds below are exact in binary      *)
(* floating point, so the float comparison agrees with the exact one.       *)
(***************************************************************************)

MaxIter == 3
MaxLimit == 2
MaxLowGainRounds == 2

\* Seed queries: one with surrounding blanks, one blank.
IterSeeds == { <<" ", "a">>, <<" ">> }

Node(node_id, node_type, query_cmd) == [node_id |-> node_id, node_type |-> node_type, query_cmd |-> query_cmd]

TopicNode == Node("n1", "topic", <<>>)

\* A query node whose command needs stripping.
QueryNodeB == Node("n2", "query", <<"b", " ">>)

\* A query node whose command is the seed query.
QueryNodeSeed == Node("n3", "query", <<"a">>)

QueryNodeC == Node("n4", "query", <<"c">>)

\* The hit lists search_index may answer with.
HitLists == { <<>>, <<TopicNode>>, <<TopicNode, QueryNodeB>>, <<QueryNodeB, QueryNodeC>>, <<QueryNodeSeed, TopicNode>>, <<TopicNode, QueryNodeB, QueryNodeC>> }

GainThresholds == { Fraction(0, 1), Fraction(1, 2), Fraction(1, 1) }

\* `gain < gain_threshold`
GainBelow(gain, threshold) == gain.num * threshold.den < threshold.num * gain.den

\* Variant: the gain is capped at 1.
GainCapped(new_hit_count, lim) == IF lim > 0 THEN Fraction(Min2(new_hit_count, lim), lim) ELSE Fraction(0, 1)

\* `(len(new_hits) / float(limit)) if limit > 0 else 0.0`
Gain(new_hit_count, lim) == IF lim > 0 THEN Fraction(new_hit_count, lim) ELSE Fraction(0, 1)

\* `[h for h in hits if h.get("node_id") not in seen_node_ids]`
NewHits(hits, seen) == SelectSeq(hits, LAMBDA h : h.node_id \notin seen)

\* The node ids added to seen_node_ids: those of the new hits that are non-empty.
NewNodeIds(new_hits) == {new_hits[i].node_id : i \in DOMAIN new_hits} \ {""}

\* The hit is a query node whose stripped command is non-empty and unseen.
Followed(h, seen) == h.node_type = "query" /\ Strip(h.query_cmd) # <<>> /\ Strip(h.query_cmd) \notin seen

\* The commands the round appends to the frontier, in hit order.
RECURSIVE ExpandedCmds(_, _)
ExpandedCmds(hits, seen) ==
    IF hits = <<>> THEN <<>>
    ELSE IF Followed(hits[1], seen) THEN <<Strip(hits[1].query_cmd)>> \o ExpandedCmds(Tail(hits), seen \cup {Strip(hits[1].query_cmd)})
    ELSE ExpandedCmds(Tail(hits), seen)

\* Variant: a round at or above the threshold leaves the streak as it is.
StreakAfterNoReset(streak, gain, threshold) == IF GainBelow(gain, threshold) THEN streak + 1 ELSE streak

\* The streak after a round that returned hits.
StreakAfter(streak, gain, threshold) == IF GainBelow(gain, threshold) THEN streak + 1 ELSE 0

\* The streak is stored and tested against low_gain_rounds.
StreakVerdict(streak) ==
    /\ low_gain_streak' = streak
    /\ IF streak >= low_gain_rounds
       THEN iter_stop_reason' = "low_gain" /\ ipc' = "done"
       ELSE iter_stop_reason' = iter_stop_reason /\ ipc' = "round"

\* The tests at the end of a round: no hits, then the low-gain streak.
RoundVerdict(hit_count, gain) ==
    IF hit_count = 0
    THEN low_gain_streak' = low_gain_streak /\ iter_stop_reason' = "no_hits" /\ ipc' = "done"
    ELSE StreakVerdict(StreakAfter(low_gain_streak, gain, gain_threshold))

LedgerEntry(current_query, hits, new_hits, expanded) ==
    [iteration |-> Len(rounds) + 1, query |-> current_query, hits |-> Len(hits), new_hits |-> Len(new_hits), gain |-> Gain(Len(new_hits), limit), expanded_queries |-> expanded]

\* Variant: the follow-up queries are put at the head of the frontier.
RoundRecordLifo(current_query, hits, new_hits, expanded) ==
    /\ seen_node_ids' = seen_node_ids \cup NewNodeIds(new_hits)
    /\ seen_query_cmds' = seen_query_cmds \cup {expanded[i] : i \in DOMAIN expanded}
    /\ frontier' = expanded \o Tail(frontier)
    /\ rounds' = Append(rounds, LedgerEntry(current_query, hits, new_hits, expanded))
    /\ RoundVerdict(Len(hits), Gain(Len(new_hits), limit))

RoundRecord(current_query, hits, new_hits, expanded) ==
    /\ seen_node_ids' = seen_node_ids \cup NewNodeIds(new_hits)
    /\ seen_query_cmds' = seen_query_cmds \cup {expanded[i] : i \in DOMAIN expanded}
    /\ frontier' = Tail(frontier) \o expanded
    /\ rounds' = Append(rounds, LedgerEntry(current_query, hits, new_hits, expanded))
    /\ RoundVerdict(Len(hits), Gain(Len(new_hits), limit))

RoundStep(current_query, hits) ==
    RoundRecord(current_query, hits, NewHits(hits, seen_node_ids), IF follow_query_nodes THEN ExpandedCmds(hits, seen_query_cmds) ELSE <<>>)

InitIter ==
    /\ LoopIdle
    /\ CandIdle
    /\ FnIdle
    /\ IngestIdle
    /\ FetchIdle
    /\ query \in IterSeeds
    /\ limit \in 0..MaxLimit
    /\ max_iter \in 0..MaxIter
    /\ gain_threshold \in GainThresholds
    /\ low_gain_rounds \in 0..MaxLowGainRounds
    /\ follow_query_nodes \in BOOLEAN
    /\ seen_node_ids = {}
    /\ seen_query_cmds = {}
    /\ rounds = <<>>
    /\ low_gain_streak = 0
    /\ IF Strip(query) = <<>>
       THEN /\ frontier = <<>> /\ iter_stop_reason = "empty_query" /\ ipc = "done"
            /\ iter_result = [iterations |-> 0, stop_reason |-> "empty_query", unique_hits |-> 0, frontier_remaining |-> 0]
       ELSE /\ frontier = <<Strip(query)>> /\ iter_stop_reason = "max_iter" /\ ipc = "round"
            /\ iter_result = NoResult

\* Variant: range(max_iter + 1), one pass too many.
IterRoundOneMore ==
    /\ ipc = "round"
    /\ Len(rounds) <= max_iter
    /\ frontier # <<>>
    /\ \E hits \in HitLists : RoundStep(Head(frontier), hits)
    /\ UNCHANGED <<iterparams, iter_result, outside_iter>>

\* One pass of the loop body with a non-empty frontier: the head query is
\* searched, the ledger is extended and the stop tests are made.
IterRound ==
    /\ ipc = "round"
    /\ Len(rounds) < max_iter
    /\ frontier # <<>>
    /\ \E hits \in HitLists : RoundStep(Head(frontier), hits)
    /\ UNCHANGED <<iterparams, iter_result, outside_iter>>

\* The loop body finds the frontier empty.
IterNoFrontier ==
    /\ ipc = "round"
    /\ Len(rounds) < max_iter
    /\ frontier = <<>>
    /\ iter_stop_reason' = "no_frontier"
    /\ ipc' = "done"
    /\ UNCHANGED <<iterparams, frontier, seen_node_ids, seen_query_cmds, rounds, low_gain_streak, iter_result, outside_iter>>

\* range(max_iter) is used up: the loop ends with stop_reason as initialised.
IterRangeDone ==
    /\ ipc = "round"
    /\ Len(rounds) >= max_iter
    /\ ipc' = "done"
    /\ UNCHANGED <<iterparams, frontier, seen_node_ids, seen_query_cmds, rounds, low_gain_streak, iter_stop_reason, iter_result, outside_iter>>

\* The report is built from the locals once the loop is left.
IterReturn ==
    /\ ipc = "done"
    /\ iter_result = NoResult
    /\ iter_result' = [iterations |-> Len(rounds), stop_reason |-> iter_stop_reason, unique_hits |-> Cardinality(seen_node_ids), frontier_remaining |-> Len(frontier)]
    /\ UNCHANGED <<iterparams, frontier, seen_node_ids, seen_query_cmds, rounds, low_gain_streak, iter_stop_reason, ipc, outside_iter>>

NextIter == IterRound \/ IterNoFrontier \/ IterRangeDone \/ IterReturn

SpecIter == InitIter /\ [][NextIter]_vars

(***************************************************************************)
(* build_index.  A node is [node_id, title]: the other columns are copied   *)
(* into the row exactly as title is.  The table is created afresh, so the   *)
(* store is the sequence of rows inserted, in insertion order.              *)
(***************************************************************************)

MaxNodes == 3

IndexNodes == [node_id : {"n1", "n2"}, title : {"t1", "t2"}]

\* All sequences over S of length at most n.
SeqsUpTo(S, n) == UNION {[1..k -> S] : k \in 0..n}

\* Variant: a later node with the same id replaces the stored row.
IndexInsertReplacing(rows, node) ==
    IF \E i \in DOMAIN rows : rows[i].node_id = node.node_id
    THEN [i \in DOMAIN rows |-> IF rows[i].node_id = node.node_id THEN node ELSE rows[i]]
    ELSE Append(rows, node)

\* One pass of the loop: `if node.node_id in seen_ids: continue`, else the
\* row is inserted (seen_ids is the set of ids of the rows).
IndexInsert(rows, node) ==
    IF \E i \in DOMAIN rows : rows[i].node_id = node.node_id THEN rows ELSE Append(rows, node)

RECURSIVE IndexFrom(_, _)
IndexFrom(rows, nodes) ==
    IF nodes = <<>> THEN rows ELSE IndexFrom(IndexInsert(rows, nodes[1]), Tail(nodes))

build_index(nodes) == IndexFrom(<<>>, nodes)

InitIndex ==
    /\ LoopIdle
    /\ CandIdle
    /\ IterIdle
    /\ IngestIdle
    /\ FetchIdle
    /\ args \in SeqsUpTo(IndexNodes, MaxNodes)
    /\ ret = <<>>
    /\ called = FALSE

BuildIndex ==
    /\ ~called
    /\ ret' = build_index(args)
    /\ called' = TRUE
    /\ UNCHANGED <<args, outside_fn>>

NextIndex == BuildIndex

SpecIndex == InitIndex /\ [][NextIndex]_vars

(***************************************************************************)
(* search_index.  A stored row is [node_id, node_type, topic, section,      *)
(* content_len]; the matcher (FTS or LIKE, run by SQLite) answers a list of  *)
(* distinct stored rows no longer than limit, which the model draws; the    *)
(* expansion is computed from the store as the code's queries compute it.   *)
(***************************************************************************)

MaxDirect == 2
MaxPerSection == 2

Row(node_id, node_type, topic, section, content_len) ==
    [node_id |-> node_id, node_type |-> node_type, topic |-> topic, section |-> section, content_len |-> content_len]

\* The indexed nodes: two topics that use the same section name, and a
\* category row without a section.
Store ==
    { Row("n1", "category", "T1", "s", 1), Row("n2", "link", "T1", "s", 2), Row("n3", "text", "T1", "s", 3),
      Row("n4", "link", "T2", "s", 4), Row("n5", "text", "T2", "s", 5), Row("n6", "category", "T2", "", 6) }

\* The lists of distinct stored rows of length at most n.
DirectLists(n) == {h \in SeqsUpTo(Store, n) : \A i, j \in DOMAIN h : h[i] = h[j] => i = j}

\* `h["match_type"] = ...`
Tagged(row, match_type) ==
    [node_id |-> row.node_id, node_type |-> row.node_type, topic |-> row.topic, section |-> row.section, content_len |-> row.content_len, match_type |-> match_type]

TagAll(rows, match_type) == [i \in DOMAIN rows |-> Tagged(rows[i], match_type)]

MinByLen(rows) == CHOOSE r \in rows : \A q \in rows : r.content_len <= q.content_len

\* ORDER BY length(content) ASC
RECURSIVE OrderByLen(_)
OrderByLen(rows) == IF rows = {} THEN <<>> ELSE <<MinByLen(rows)>> \o OrderByLen(rows \ {MinByLen(rows)})

Take(seq, n) == SubSeq(seq, 1, Min2(Len(seq), n))

\* Variant: the children are selected by section name alone.
SectionChildrenAnyTopic(topic_name, section_name, per_section_limit) ==
    Take(OrderByLen({r \in Store : r.section = section_name /\ r.node_type # "category"}), Max2(1, per_section_limit))

\* The child_rows query of _append_section_children.
SectionChildren(topic_name, section_name, per_section_limit) ==
    Take(OrderByLen({r \in Store : r.topic = topic_name /\ r.section = section_name /\ r.node_type # "category"}), Max2(1, per_section_limit))

\* Variant: a child is appended whether or not its id is in the result.
AppendChildUnchecked(merged, row, match_type) == Append(merged, Tagged(row, match_type))

\* `if not node_id or node_id in seen_ids: continue` (seen_ids holds the ids
\* of merged), else the tagged row is appended.
AppendChild(merged, row, match_type) ==
    IF row.node_id = "" \/ \E i \in DOMAIN merged : merged[i].node_id = row.node_id
    THEN merged
    ELSE Append(merged, Tagged(row, match_type))

RECURSIVE AppendChildren(_, _, _)
AppendChildren(merged, child_rows, match_type) ==
    IF child_rows = <<>> THEN merged
    ELSE AppendChildren(AppendChild(merged, child_rows[1], match_type), Tail(child_rows), match_type)

_append_section_children(merged, topic_name, section_name, per_section_limit, match_type) ==
    IF section_name = "" \/ topic_name = "" THEN merged
    ELSE AppendChildren(merged, SectionChildren(topic_name, section_name, per_section_limit), match_type)

\* The loop over a list of (topic, section) keys.
RECURSIVE ExpandKeys(_, _, _, _)
ExpandKeys(merged, keys, per_section_limit, match_type) ==
    IF keys = <<>> THEN merged
    ELSE ExpandKeys(_append_section_children(merged, keys[1][1], keys[1][2], per_section_limit, match_type), Tail(keys), per_section_limit, match_type)

\* The (topic, section) keys of the hits of one node type, in hit order.
KeysOfType(hits, node_type) ==
    [i \in DOMAIN SelectSeq(hits, LAMBDA h : h.node_type = node_type) |-> <<SelectSeq(hits, LAMBDA h : h.node_type = node_type)[i].topic, SelectSeq(hits, LAMBDA h : h.node_type = node_type)[i].section>>]

\* The rank of a topic or section name in string order.
NameRank(name) == CASE name = "" -> 0 [] name = "T1" -> 1 [] name = "T2" -> 2 [] name = "s" -> 3 [] OTHER -> 4

KeyLess(a, b) == NameRank(a[1]) < NameRank(b[1]) \/ (a[1] = b[1] /\ NameRank(a[2]) < NameRank(b[2]))

MinKey(keys) == CHOOSE k \in keys : \A q \in keys : q = k \/ KeyLess(k, q)

\* sorted(related_keys)
RECURSIVE SortedKeys(_)
SortedKeys(keys) == IF keys = {} THEN <<>> ELSE <<MinKey(keys)>> \o SortedKeys(keys \ {MinKey(keys)})

RelatedKeys(hits) == {<<hits[i].topic, hits[i].section>> : i \in {j \in DOMAIN hits : hits[j].node_type = "link"}}

\* The section_related pass, when asked for.
ExpandRelated(merged, hits, expand_related_sections, related_limit_per_section) ==
    IF expand_related_sections
    THEN ExpandKeys(merged, SortedKeys(RelatedKeys(hits)), related_limit_per_section, "section_related")
    ELSE merged

\* search_index on the direct hits `rows` the matcher answered.
search_index(rows, expand_categories, expand_limit_per_category, expand_related_sections, related_limit_per_section) ==
    IF ~expand_categories THEN TagAll(rows, "direct")
    ELSE ExpandRelated(ExpandKeys(TagAll(rows, "direct"), KeysOfType(rows, "category"), expand_limit_per_category, "category_child"), rows, expand_related_sections, related_limit_per_section)

InitSearch ==
    /\ LoopIdle
    /\ CandIdle
    /\ IterIdle
    /\ IngestIdle
    /\ FetchIdle
    /\ \E lim \in 0..MaxDirect :
         args \in [limit : {lim}, rows : DirectLists(lim), expand_categories : BOOLEAN, expand_limit_per_category : 0..MaxPerSection, expand_related_sections : BOOLEAN, related_limit_per_section : 0..MaxPerSection]
    /\ ret = <<>>
    /\ called = FALSE

SearchIndex ==
    /\ ~called
    /\ ret' = search_index(args.rows, args.expand_categories, args.expand_limit_per_category, args.expand_related_sections, args.related_limit_per_section)
    /\ called' = TRUE
    /\ UNCHANGED <<args, outside_fn>>

NextSearch == SearchIndex

SpecSearch == InitSearch /\ [][NextSearch]_vars

(***************************************************************************)
(* should_ingest and the ingest-if-needed command.  The metadata file is    *)
(* "missing", unparseable ("garbled"), or a "record" of which raw_sha and   *)
(* pipeline_version are read ("" for an absent key).  _sha1_text is a table *)
(* without collisions over the texts of the model.                          *)
(***************************************************************************)

MaxRuns == 3

Texts == {"m1", "m2"}

Versions == {"8", "legacy"}

\* _sha1_text
Sha(text) == CASE text = "m1" -> "sha-m1" [] text = "m2" -> "sha-m2" [] OTHER -> "sha-other"

MetaRecord(raw_sha, pipeline_version) == [state |-> "record", raw_sha |-> raw_sha, pipeline_version |-> pipeline_version]

MetaMissing == [state |-> "missing", raw_sha |-> "", pipeline_version |-> ""]

MetaGarbled == [state |-> "garbled", raw_sha |-> "", pipeline_version |-> ""]

MetaFiles == {MetaMissing, MetaGarbled} \cup [state : {"record"}, raw_sha : {"", Sha("m1"), Sha("m2")}, pipeline_version : {""} \cup Versions]

\* Variant: the pipeline version is not compared.
should_ingest_hash_only(text, meta, force, expected) ==
    IF force THEN TRUE
    ELSE IF meta.state = "missing" THEN TRUE
    ELSE IF meta.state = "garbled" THEN TRUE
    ELSE meta.raw_sha # Sha(text)

\* The first component of should_ingest's answer (the second is Sha(text)).
should_ingest(text, meta, force, expected) ==
    IF force THEN TRUE
    ELSE IF meta.state = "missing" THEN TRUE
    ELSE IF meta.state = "garbled" THEN TRUE
    ELSE IF meta.pipeline_version # expected THEN TRUE
    ELSE meta.raw_sha # Sha(text)

InitIngest ==
    /\ LoopIdle
    /\ CandIdle
    /\ IterIdle
    /\ FnIdle
    /\ FetchIdle
    /\ meta_file \in MetaFiles
    /\ raw_text \in Texts
    /\ expected_pipeline_version \in Versions
    /\ runs = 0
    /\ answer = NoAnswer
    /\ since_run = "start"

\* What a run does once should_ingest has answered: write_meta after an
\* ingestion, nothing otherwise.
IngestOutcome(force, should) ==
    /\ answer' = [force |-> force, should |-> should, raw_sha |-> Sha(raw_text)]
    /\ meta_file' = IF should THEN MetaRecord(Sha(raw_text), expected_pipeline_version) ELSE meta_file

\* One run of the ingest-if-needed command.
IngestIfNeeded ==
    /\ since_run # "idle"
    /\ runs < MaxRuns
    /\ \E force \in BOOLEAN : IngestOutcome(force, should_ingest(raw_text, meta_file, force, expected_pipeline_version))
    /\ runs' = runs + 1
    /\ since_run' = "nothing"
    /\ UNCHANGED <<raw_text, expected_pipeline_version, outside_ingest>>

\* Between two runs the markdown text is changed.
EditText ==
    /\ since_run = "nothing"
    /\ raw_text' \in Texts \ {raw_text}
    /\ since_run' = "edit"
    /\ UNCHANGED <<meta_file, expected_pipeline_version, runs, answer, outside_ingest>>

\* Between two runs the program's PIPELINE_VERSION is changed.
UpgradePipeline ==
    /\ since_run = "nothing"
    /\ expected_pipeline_version' \in Versions \ {expected_pipeline_version}
    /\ since_run' = "upgrade"
    /\ UNCHANGED <<meta_file, raw_text, runs, answer, outside_ingest>>

\* Between two runs the metadata file is removed or made unparseable.
DamageMeta ==
    /\ since_run = "nothing"
    /\ meta_file' \in {MetaMissing, MetaGarbled}
    /\ since_run' = "damage"
    /\ UNCHANGED <<raw_text, expected_pipeline_version, runs, answer, outside_ingest>>

NextIngest == IngestIfNeeded \/ EditText \/ UpgradePipeline \/ DamageMeta

SpecIngest == InitIngest /\ [][NextIngest]_vars

(***************************************************************************)
(* The visited-key files.  A file is [state, items]: "missing", unparseable *)
(* ("garbled"), or the "dict" save writes, whose list of keys is items.     *)
(* The keys are those explore_loop puts in its visited sets: the canonical  *)
(* keys of titles, never empty.                                             *)
(***************************************************************************)

MaxKeys == 3

VisitedTitles == { <<">", "A", "/">>, <<">", "b">>, <<">", "b", ":", ":">>, <<"?", "?", "c">> }

\* The key explore_loop records for a title in the set named which.
VisitedKey(which, title) ==
    IF which = "exec" THEN _canonical_edge_key(title) ELSE _canonical_topic_key(root_topic_from_title(title))

Range(seq) == {seq[i] : i \in 1..Len(seq)}

AnyOf(S) == CHOOSE x \in S : TRUE

RECURSIVE SortedStrs(_)
\* sorted(...) of a set of strings: the strings below one of them, that one,
\* the strings above it.
SortedStrs(S) ==
    IF S = {} THEN <<>>
    ELSE SortedStrs({k \in S : StrLess(k, AnyOf(S))}) \o <<AnyOf(S)>> \o SortedStrs({k \in S : StrLess(AnyOf(S), k)})

\* save_visited_exec_titles and save_visited_topic_keys write the same payload
\* under different names.
save_visited(keys) == [state |-> "dict", items |-> SortedStrs({k \in keys : k # <<>>})]

\* load_visited_exec_titles (which = "exec") and load_visited_topic_keys.
load_visited(which, file) ==
    IF file.state # "dict" THEN {}
    ELSE IF which = "exec" THEN {_canonical_edge_key(x) : x \in {y \in Range(file.items) : Strip(y) # <<>>}}
    ELSE {_canonical_topic_key(x) : x \in {y \in Range(file.items) : Strip(y) # <<>>}}

InitVisited ==
    /\ LoopIdle
    /\ CandIdle
    /\ IterIdle
    /\ IngestIdle
    /\ FetchIdle
    /\ \E which \in {"exec", "topic"}, state \in {"missing", "garbled"} :
         args = [which |-> which, inserted |-> <<>>, file |-> [state |-> state, items |-> <<>>]]
    /\ ret = {}
    /\ called = FALSE

\* The run marks one more title visited.
MarkVisited ==
    /\ ~called
    /\ args.file.state # "dict"
    /\ Len(args.inserted) < MaxKeys
    /\ \E title \in VisitedTitles :
         /\ VisitedKey(args.which, title) # <<>>
         /\ VisitedKey(args.which, title) \notin Range(args.inserted)
         /\ args' = [args EXCEPT !.inserted = Append(@, VisitedKey(args.which, title))]
    /\ UNCHANGED <<ret, called, outside_fn>>

SaveVisited ==
    /\ ~called
    /\ args.file.state # "dict"
    /\ args' = [args EXCEPT !.file = save_visited(Range(args.inserted))]
    /\ UNCHANGED <<ret, called, outside_fn>>

LoadVisited ==
    /\ ~called
    /\ ret' = load_visited(args.which, args.file)
    /\ called' = TRUE
    /\ UNCHANGED <<args, outside_fn>>

NextVisited == MarkVisited \/ SaveVisited \/ LoadVisited

SpecVisited == InitVisited /\ [][NextVisited]_vars

(***************************************************************************)
(* Input derivation followed by title resolution, on short strings.        *)
(***************************************************************************)

MaxLen == 3

Chars == {">", "?", "-", "a", " "}

\* The non-empty texts without outer whitespace: an exec title reaches
\* _to_input_from_exec_title stripped, and a payload is what follows the
\* whitespace after "xlb".
Texts3 == {s \in SeqsUpTo(Chars, MaxLen) \ {<<>>} : Strip(s) = s}

\* A title that starts with one of the markers `>`, `??`, `->`.
IsDirectiveTitle(t) ==
    StartsWith(t, <<">">>) \/ StartsWith(t, <<"?", "?">>) \/ StartsWith(t, <<"-", ">">>)

InitInverse ==
    /\ LoopIdle
    /\ CandIdle
    /\ IterIdle
    /\ IngestIdle
    /\ FetchIdle
    /\ \/ \E p \in Texts3 : args = [form |-> "payload", text |-> p]
       \/ \E t \in {x \in Texts3 : IsDirectiveTitle(x)} : args = [form |-> "title", text |-> t]
    /\ ret = <<>>
    /\ called = FALSE

\* resolve_title_from_input("xlb " + p) for a payload, and
\* resolve_title_from_input(_to_input_from_exec_title(t)) for a title.
ResolveDerived ==
    /\ ~called
    /\ ret' = IF args.form = "payload" THEN resolve_title_from_input(xlb \o args.text)
              ELSE resolve_title_from_input(_to_input_from_exec_title(args.text))
    /\ called' = TRUE
    /\ UNCHANGED <<args, outside_fn>>

NextInverse == ResolveDerived

SpecInverse == InitInverse /\ [][NextInverse]_vars

(***************************************************************************)
(* graph_neighbors_from_edges.  An edge is [topic, query_exec_title,        *)
(* query_kind, query_source]; of the result the target's two forms and the  *)
(* two edge lists are kept (the counts are their lengths, the aggregates    *)
(* and follow-up inputs are derived from them).                             *)
(***************************************************************************)

MaxEdges == 3

MaxGraphLimit == 2

HasChar(s, c) == \E i \in 1..Len(s) : s[i] = c

\* `if value.startswith(">>"): value = ">" + value[2:].lstrip()`
CollapseMarker(value) ==
    IF StartsWith(value, <<">", ">">>) THEN <<">">> \o LStrip(Drop(value, 2)) ELSE value

\* The `>` branch of _normalize_query_exec_title on body = value[1:].strip().
TopicReference(body) ==
    IF body = <<>> THEN <<">">>
    ELSE IF ~HasChar(body, "/") THEN <<">">> \o body \o <<"/">>
    ELSE <<">">> \o body

\* The body of _normalize_query_exec_title after the collapse of `>>`.
NormalizeCollapsed(value) ==
    IF StartsWith(value, <<">">>) THEN TopicReference(Strip(Drop(value, 1)))
    ELSE IF StartsWith(value, <<"?", "?">>) THEN value
    ELSE <<>>

\* _normalize_query_exec_title(raw_query, section="", fallback_title=""), on
\* texts without parentheses.
_normalize_query_exec_title(raw_query) ==
    IF Strip(raw_query) = <<>> THEN <<>> ELSE NormalizeCollapsed(CollapseMarker(Strip(raw_query)))

\* `if text.startswith("->"): text = ">" + text[2:].lstrip()`
ArrowToMarker(text) ==
    IF StartsWith(text, <<"-", ">">>) THEN <<">">> \o LStrip(Drop(text, 2)) ELSE text

\* The body of _canonical_exec_title_key once the colon is cut and the
\* markers `->` and `>>` are collapsed.
ExecKeyOfMarked(text) ==
    IF StartsWith(text, <<">">>) THEN <<">">> \o _canonical_topic_key(Drop(text, 1))
    ELSE IF StartsWith(text, <<"?", "?">>) THEN <<"?", "?">> \o _canonical_topic_key(Drop(text, 2))
    ELSE _canonical_topic_key(text)

_canonical_exec_title_key(value) ==
    IF CutColon(Strip(value)) = <<>> THEN <<>>
    ELSE ExecKeyOfMarked(CollapseMarker(ArrowToMarker(CutColon(Strip(value)))))

\* The end of _normalize_graph_target_title, on the text whose colons and
\* arrow are dealt with.
TargetOfText(text) ==
    IF _normalize_query_exec_title(text) # <<>> THEN _normalize_query_exec_title(text)
    ELSE IF StartsWith(text, <<">">>) \/ StartsWith(text, <<"?", "?">>) THEN text
    ELSE IF text # <<>> THEN <<">">> \o text
    ELSE <<>>

\* Variant: the arrow form `->T` is not recognised.
NormalizeTargetNoArrow(raw) == TargetOfText(CutColon(CutColon(Strip(raw))))

_normalize_graph_target_title(raw) == TargetOfText(CutColon(ArrowToMarker(CutColon(Strip(raw)))))

_topic_key_from_exec_title(exec_title) ==
    IF StartsWith(CutColon(Strip(exec_title)), <<">">>) THEN _canonical_topic_key(Drop(CutColon(Strip(exec_title)), 1))
    ELSE <<>>

SourceRank(source) == CASE source = "command" -> 1 [] source = "searchin" -> 2 [] OTHER -> 0

\* The sort keys: (topic, query_source) for the inbound edges and
\* (query_kind, query_exec_title) for the outbound ones, in lower case.
EdgeLess(dir, x, y) ==
    IF dir = "inbound"
    THEN IF Lower(x.topic) # Lower(y.topic) THEN StrLess(Lower(x.topic), Lower(y.topic))
         ELSE SourceRank(x.query_source) < SourceRank(y.query_source)
    ELSE IF KindOrd(x.query_kind) # KindOrd(y.query_kind) THEN KindOrd(x.query_kind) < KindOrd(y.query_kind)
         ELSE StrLess(Lower(x.query_exec_title), Lower(y.query_exec_title))

RECURSIVE InsertEdge(_, _, _)
InsertEdge(dir, sorted, x) ==
    IF sorted = <<>> THEN <<x>>
    ELSE IF EdgeLess(dir, x, sorted[1]) THEN <<x>> \o sorted
    ELSE <<sorted[1]>> \o InsertEdge(dir, Tail(sorted), x)

RECURSIVE SortEdges(_, _, _)
SortEdges(dir, todo, sorted) ==
    IF todo = <<>> THEN sorted ELSE SortEdges(dir, Tail(todo), InsertEdge(dir, sorted, todo[1]))

\* [e for e in edges if ...] for the two directions.
RECURSIVE EdgesToward(_, _, _)
EdgesToward(dir, edges, key) ==
    IF edges = <<>> THEN <<>>
    ELSE IF dir = "inbound" /\ _canonical_exec_title_key(edges[1].query_exec_title) = key
         THEN <<edges[1]>> \o EdgesToward(dir, Tail(edges), key)
    ELSE IF dir = "outbound" /\ key # <<>> /\ _canonical_topic_key(edges[1].topic) = key
         THEN <<edges[1]>> \o EdgesToward(dir, Tail(edges), key)
    ELSE EdgesToward(dir, Tail(edges), key)

\* The filtered, sorted and capped list of one direction.
Neighbors(dir, edges, key, lim) == Take(SortEdges(dir, EdgesToward(dir, edges, key), <<>>), Max2(1, lim))

NeighborsOf(edges, normalized_target, lim) ==
    [ target_exec_title |-> normalized_target,
      canonical_target |-> _canonical_exec_title_key(normalized_target),
      inbound_edges |-> Neighbors("inbound", edges, _canonical_exec_title_key(normalized_target), lim),
      outbound_edges |-> Neighbors("outbound", edges, _topic_key_from_exec_title(normalized_target), lim) ]

graph_neighbors_from_edges(edges, target_title, lim) ==
    NeighborsOf(edges, _normalize_graph_target_title(target_title), lim)

Edge(topic, query_exec_title, query_kind, query_source) ==
    [topic |-> topic, query_exec_title |-> query_exec_title, query_kind |-> query_kind, query_source |-> query_source]

GraphEdges ==
    { Edge(<<"A">>, <<">", "b", "/">>, "topic_nav", "searchin"),
      Edge(<<"b">>, <<">", "A", "/">>, "topic_nav", "searchin"),
      Edge(<<"b">>, <<">", "a", "/", ":">>, "topic_nav", "command"),
      Edge(<<"a">>, <<"?", "?", "a">>, "kb_search", "command"),
      Edge(<<"b", "/">>, <<">", ">", "a">>, "query", "command") }

GraphTargets ==
    { <<">", "a", "/">>, <<"-", ">", "A", "/", ":">>, <<">", ">", "a">>, <<">", "b", "/">>, <<"?", "?", "a">> }

InitGraph ==
    /\ LoopIdle
    /\ CandIdle
    /\ IterIdle
    /\ IngestIdle
    /\ FetchIdle
    /\ \E edges \in SeqsUpTo(GraphEdges, MaxEdges), target \in GraphTargets, lim \in 0..MaxGraphLimit :
         args = [edges |-> edges, target_title |-> target, limit |-> lim]
    /\ ret = <<>>
    /\ called = FALSE

GraphNeighbors ==
    /\ ~called
    /\ ret' = graph_neighbors_from_edges(args.edges, args.target_title, args.limit)
    /\ called' = TRUE
    /\ UNCHANGED <<args, outside_fn>>

NextGraph == GraphNeighbors

SpecGraph == InitGraph /\ [][NextGraph]_vars

(***************************************************************************)
(* fetch_urls_concurrently.  Each submitted URL is a task of the pool: it   *)
(* waits ("queued"), runs in one of max_workers threads ("running") and     *)
(* ends with the status _download_one returned or with "raised".  The main  *)
(* thread consumes the ended tasks in the order as_completed yields them.   *)
(* A record is [url, status].                                               *)
(***************************************************************************)

MaxUrls == 3

MaxWorkers == 2

RawUrls == { <<"a">>, <<" ", "a">>, <<"b">>, <<"c">>, <<" ">> }

DownloadStatuses == {"downloaded", "cached"}

\* The loop that strips the URLs and drops the blank and the repeated ones.
RECURSIVE UniqFrom(_, _)
UniqFrom(todo, kept) ==
    IF todo = <<>> THEN kept
    ELSE IF Strip(todo[1]) = <<>> \/ Strip(todo[1]) \in Range(kept) THEN UniqFrom(Tail(todo), kept)
    ELSE UniqFrom(Tail(todo), Append(kept, Strip(todo[1])))

RECURSIVE InsertByUrl(_, _)
InsertByUrl(sorted, r) ==
    IF sorted = <<>> THEN <<r>>
    ELSE IF StrLess(r.url, sorted[1].url) THEN <<r>> \o sorted
    ELSE <<sorted[1]>> \o InsertByUrl(Tail(sorted), r)

RECURSIVE SortByUrl(_, _)
SortByUrl(todo, sorted) ==
    IF todo = <<>> THEN sorted ELSE SortByUrl(Tail(todo), InsertByUrl(sorted, todo[1]))

\* Variant: the records are returned in the order of completion.
ReturnedUnsorted(recs) == recs

\* `return sorted(results, key=lambda x: x.get("url", ""))`
Returned(recs) == SortByUrl(recs, <<>>)

\* `results.append(fut.result())`, or the error record when the task raised.
RecordOf(url, ended) ==
    IF ended = "raised" THEN [url |-> url, status |-> "error"] ELSE [url |-> url, status |-> ended]

InitFetch ==
    /\ LoopIdle
    /\ CandIdle
    /\ IterIdle
    /\ FnIdle
    /\ IngestIdle
    /\ urls \in SeqsUpTo(RawUrls, MaxUrls)
    /\ max_workers \in 1..MaxWorkers
    /\ uniq = <<>>
    /\ task = <<>>
    /\ collected = {}
    /\ results = <<>>
    /\ fetched = <<>>
    /\ fetch_pc = "call"

\* The call up to the submission of every task; with no URL left it returns.
FetchSubmit ==
    /\ fetch_pc = "call"
    /\ uniq' = UniqFrom(urls, <<>>)
    /\ task' = [i \in 1..Len(UniqFrom(urls, <<>>)) |-> "queued"]
    /\ fetch_pc' = IF UniqFrom(urls, <<>>) = <<>> THEN "done" ELSE "pool"
    /\ UNCHANGED <<urls, max_workers, collected, results, fetched, outside_fetch>>

\* A free thread of the pool takes the oldest waiting task.
WorkerStart ==
    /\ fetch_pc = "pool"
    /\ Cardinality({i \in DOMAIN task : task[i] = "running"}) < max_workers
    /\ \E i \in DOMAIN task :
         /\ task[i] = "queued"
         /\ \A j \in 1..(i - 1) : task[j] # "queued"
         /\ task' = [task EXCEPT ![i] = "running"]
    /\ UNCHANGED <<urls, max_workers, uniq, collected, results, fetched, fetch_pc, outside_fetch>>

\* _download_one returns a record or raises.
WorkerEnd ==
    /\ fetch_pc = "pool"
    /\ \E i \in DOMAIN task, ended \in DownloadStatuses \cup {"raised"} :
         /\ task[i] = "running"
         /\ task' = [task EXCEPT ![i] = ended]
    /\ UNCHANGED <<urls, max_workers, uniq, collected, results, fetched, fetch_pc, outside_fetch>>

\* One turn of `for fut in as_completed(fut_map)`.
Collect ==
    /\ fetch_pc = "pool"
    /\ \E i \in DOMAIN task :
         /\ task[i] \notin {"queued", "running"}
         /\ i \notin collected
         /\ collected' = collected \cup {i}
         /\ results' = Append(results, RecordOf(uniq[i], task[i]))
    /\ UNCHANGED <<urls, max_workers, uniq, task, fetched, fetch_pc, outside_fetch>>

\* Every future is consumed: the pool is left and the list returned.
FetchReturn ==
    /\ fetch_pc = "pool"
    /\ collected = DOMAIN task
    /\ fetched' = Returned(results)
    /\ fetch_pc' = "done"
    /\ UNCHANGED <<urls, max_workers, uniq, task, collected, results, outside_fetch>>

NextFetch == FetchSubmit \/ WorkerStart \/ WorkerEnd \/ Collect \/ FetchReturn

SpecFetch == InitFetch /\ [][NextFetch]_vars

(***************************************************************************)
(* The two traversals side by side: a behaviour is a call of explore_loop  *)
(* or a call of iterative_search.                                          *)
(***************************************************************************)

InitSeeded == Init \/ InitIter

NextSeeded == Next \/ NextIter

SpecSeeded == InitSeeded /\ [][NextSeeded]_vars

(***************************************************************************)
(* The visited-exec key of two references: the first is executed by        *)
(* explore_loop from empty visited sets (its collaborator answers no       *)
(* title), then the second is met at dequeue and at candidate filtering.   *)
(***************************************************************************)

References == { <<">", c>> \o suffix : c \in {"x", "X", "y"}, suffix \in {<<>>, <<"/">>, <<":">>, <<"/", ":">>} }

\* visited_exec once explore_loop has executed the reference.
VisitedAfterRun(reference) ==
    VisitedExecAfter({}, InputKey(_to_input_from_exec_title(reference)), _canonical_edge_key(InputTitle(_to_input_from_exec_title(reference))))

InitKeys ==
    /\ LoopIdle
    /\ CandIdle
    /\ IterIdle
    /\ IngestIdle
    /\ FetchIdle
    /\ \E a \in References, b \in References : args = [executed |-> a, met |-> b]
    /\ ret = <<>>
    /\ called = FALSE

MeetReference ==
    /\ ~called
    /\ ret' = [ skipped |-> SkipsVisited(InputKey(_to_input_from_exec_title(args.met)), VisitedAfterRun(args.executed)),
                rejected |-> ExecFiltered(_canonical_edge_key(Strip(args.met)), {}, VisitedAfterRun(args.executed)) ]
    /\ called' = TRUE
    /\ UNCHANGED <<args, outside_fn>>

NextKeys == MeetReference

SpecKeys == InitKeys /\ [][NextKeys]_vars

(***************************************************************************)
(* build_navigation_candidates on its own.                                 *)
(***************************************************************************)

MaxNavLen == 2

NavItems ==
    { NavEntry("topic_nav", "searchin", <<">", "a", "/">>),
      NavEntry("topic_nav", "searchin", <<">", "A", "/", ":">>),
      NavEntry("kb_search", "command", <<">", "a", "/", "t">>),
      NavEntry("topic_nav", "searchin", <<" ">>) }

OtherItems == { NavEntry("", "", <<"?", "?", "c">>) }

InitNav ==
    /\ LoopIdle
    /\ CandIdle
    /\ IterIdle
    /\ IngestIdle
    /\ FetchIdle
    /\ \E topic_nav \in SeqsUpTo(NavItems, MaxNavLen), kb_search \in SeqsUpTo(NavItems, MaxNavLen), other \in SeqsUpTo(OtherItems, 1), strategy \in {"topic_first", "search_first", "mixed"}, include \in BOOLEAN :
         args = [nav |-> [topic_navigation |-> topic_nav, knowledge_search |-> kb_search, other_queries |-> other], strategy |-> strategy, include_other_queries |-> include]
    /\ ret = <<>>
    /\ called = FALSE

BuildNavigation ==
    /\ ~called
    /\ ret' = build_navigation_candidates(args.nav, args.strategy, args.include_other_queries)
    /\ called' = TRUE
    /\ UNCHANGED <<args, outside_fn>>

NextNav == BuildNavigation

SpecNav == InitNav /\ [][NextNav]_vars

(***************************************************************************)
(* _download_one and the artifact cache of one URL.  args is the cache and  *)
(* the history: meta is the metadata side-file ([state, file_name,          *)
(* html_mode], html_mode "" when the key is absent), files the artifact     *)
(* files present, network_calls the number of urlopen calls, last_ok_mode   *)
(* the mode of the last fetch that returned.  ret is the last fetch.        *)
(***************************************************************************)

MaxFetches == 5

HtmlModes == {"markdown", "text"}

CacheMeta(state, file_name, html_mode) == [state |-> state, file_name |-> file_name, html_mode |-> html_mode]

\* Variant: the cached rendering mode is not compared with the requested one.
CacheHitAnyMode(meta, files, html_mode) == meta.state = "record" /\ meta.file_name \in files

\* `if file_path.exists() and not mode_mismatch`, under a readable meta file.
CacheHit(meta, files, html_mode) ==
    /\ meta.state = "record"
    /\ meta.file_name \in files
    /\ ~(meta.html_mode # "" /\ meta.html_mode # html_mode)

\* The file _download_one writes for a response: the rendering of an HTML
\* page in the requested mode, or the bytes as they came.
ArtifactName(response, html_mode) ==
    IF response = "binary" THEN "bin" ELSE IF html_mode = "markdown" THEN "md" ELSE "txt"

\* The cache after urlopen answered (nothing is written when it raised or
\* the payload was too large).
CacheAfter(cache, response, html_mode) ==
    IF response = "raised" THEN [cache EXCEPT !.network_calls = @ + 1]
    ELSE [cache EXCEPT !.network_calls = @ + 1,
                       !.files = @ \cup {ArtifactName(response, html_mode)},
                       !.meta = CacheMeta("record", ArtifactName(response, html_mode), IF response = "binary" THEN "" ELSE html_mode),
                       !.last_ok_mode = html_mode]

\* The status of a fetch that went to the network.
FetchedStatus(response, converter) ==
    IF response = "raised" THEN "raised"
    ELSE IF response = "binary" THEN "downloaded"
    ELSE IF converter = "external" THEN "converted_external" ELSE "converted_local"

InitCache ==
    /\ LoopIdle
    /\ CandIdle
    /\ IterIdle
    /\ IngestIdle
    /\ FetchIdle
    /\ \E state \in {"missing", "garbled"} :
         args = [meta |-> CacheMeta(state, "", ""), files |-> {}, network_calls |-> 0, last_ok_mode |-> ""]
    /\ ret = [html_mode |-> "", status |-> ""]
    /\ called = FALSE

\* _download_one answers from the cache.
DownloadCached ==
    /\ args.network_calls < MaxFetches
    /\ \E html_mode \in HtmlModes :
         /\ CacheHit(args.meta, args.files, html_mode)
         /\ ret' = [html_mode |-> html_mode, status |-> "cached"]
         /\ args' = [args EXCEPT !.last_ok_mode = html_mode]
    /\ called' = TRUE
    /\ UNCHANGED outside_fn

\* _download_one goes to the network.
DownloadFetched ==
    /\ args.network_calls < MaxFetches
    /\ \E html_mode \in HtmlModes, response \in {"html", "binary", "raised"}, converter \in {"external", "local"} :
         /\ ~CacheHit(args.meta, args.files, html_mode)
         /\ ret' = [html_mode |-> html_mode, status |-> FetchedStatus(response, converter)]
         /\ args' = CacheAfter(args, response, html_mode)
    /\ called' = TRUE
    /\ UNCHANGED outside_fn

NextCache == DownloadCached \/ DownloadFetched

SpecCache == InitCache /\ [][NextCache]_vars

(***************************************************************************)
(* prefetch_from_index.  search_index answers a list of hits ([node_type,   *)
(* url]); fetch_urls_concurrently answers one record per distinct URL, in   *)
(* URL order, each with the status its fetch ended with.  The report also   *)
(* tells whether the search and the fetch were called.                      *)
(***************************************************************************)

MaxHits == 2

PrefetchHits ==
    { [node_type |-> "link", url |-> <<"a">>], [node_type |-> "link", url |-> <<"b">>],
      [node_type |-> "link", url |-> <<>>], [node_type |-> "text", url |-> <<"a">>] }

FetchEnds == {"downloaded", "converted_local", "converted_external", "cached", "raised"}

\* Variant: the confirmation is asked for when it was given.
SkipsPrefetchInverted(require_confirmation, network_confirmed) == require_confirmation /\ network_confirmed

\* `if require_confirmation and not network_confirmed`
SkipsPrefetch(require_confirmation, network_confirmed) == require_confirmation /\ ~network_confirmed

\* `[h.get("url", "") for h in hits if h.get("node_type") == "link" and h.get("url")]`
RECURSIVE LinkUrls(_)
LinkUrls(hits) ==
    IF hits = <<>> THEN <<>>
    ELSE IF hits[1].node_type = "link" /\ hits[1].url # <<>> THEN <<hits[1].url>> \o LinkUrls(Tail(hits))
    ELSE LinkUrls(Tail(hits))

\* What fetch_urls_concurrently returns when the fetch of uniq[i] ends with
\* ended[i].
FetchedRecords(link_urls, ended) ==
    Returned([i \in 1..Len(UniqFrom(link_urls, <<>>)) |-> RecordOf(UniqFrom(link_urls, <<>>)[i], ended[i])])

WithStatus(recs, wanted) == Cardinality({i \in DOMAIN recs : recs[i].status = wanted})

SkippedReport ==
    [ searched |-> FALSE, fetch_called |-> FALSE, urls |-> 0, results |-> <<>>, downloaded |-> 0, converted_local |-> 0,
      converted_external |-> 0, cached |-> 0, errors |-> 0, skipped |-> TRUE, skip_reason |-> "network_confirmation_required" ]

PrefetchReport(link_urls, recs) ==
    [ searched |-> TRUE, fetch_called |-> TRUE, urls |-> Len(link_urls), results |-> recs, downloaded |-> WithStatus(recs, "downloaded"),
      converted_local |-> WithStatus(recs, "converted_local"), converted_external |-> WithStatus(recs, "converted_external"),
      cached |-> WithStatus(recs, "cached"), errors |-> WithStatus(recs, "error"), skipped |-> FALSE, skip_reason |-> "" ]

prefetch_from_index(require_confirmation, network_confirmed, hits, ended) ==
    IF SkipsPrefetch(require_confirmation, network_confirmed) THEN SkippedReport
    ELSE PrefetchReport(LinkUrls(hits), FetchedRecords(LinkUrls(hits), ended))

InitPrefetch ==
    /\ LoopIdle
    /\ CandIdle
    /\ IterIdle
    /\ IngestIdle
    /\ FetchIdle
    /\ \E require \in BOOLEAN, confirmed \in BOOLEAN, hits \in SeqsUpTo(PrefetchHits, MaxHits) :
         args = [require_confirmation |-> require, network_confirmed |-> confirmed, hits |-> hits]
    /\ ret = <<>>
    /\ called = FALSE

Prefetch ==
    /\ ~called
    /\ \E ended \in [1..MaxHits -> FetchEnds] :
         ret' = prefetch_from_index(args.require_confirmation, args.network_confirmed, args.hits, ended)
    /\ called' = TRUE
    /\ UNCHANGED <<args, outside_fn>>

NextPrefetch == Prefetch

SpecPrefetch == InitPrefetch /\ [][NextPrefetch]_vars

(***************************************************************************)
(* The explore-next command, once meta and navigation.json are loaded.     *)
(* args.visited is the content of the visited file (empty without a file), *)
(* ret tells the status printed, the exec title selected, whether the      *)
(* collaborator was invoked and the content of the visited file afterwards.*)
(***************************************************************************)

MaxSelect == 1

NextVisitedFiles == { {}, {<<">", "c", "/">>}, {<<">", "a", "/">>, <<">", "b", "/">>} }

\* `if key and key in visited: continue`
RECURSIVE UnvisitedOf(_, _)
UnvisitedOf(candidates, visited) ==
    IF candidates = <<>> THEN <<>>
    ELSE IF _canonical_edge_key(candidates[1].query_exec_title) # <<>> /\ _canonical_edge_key(candidates[1].query_exec_title) \in visited THEN UnvisitedOf(Tail(candidates), visited)
    ELSE <<candidates[1]>> \o UnvisitedOf(Tail(candidates), visited)

\* Variant: the key is recorded whatever the collaborator returned.
VisitedFileAfterAnyCode(visited, has_file, update_visited, returncode, key) ==
    IF has_file /\ update_visited /\ key # <<>> THEN visited \cup {key} ELSE visited

\* The visited file after the collaborator returned.
VisitedFileAfter(visited, has_file, update_visited, returncode, key) ==
    IF has_file /\ update_visited /\ returncode = 0 /\ key # <<>> THEN visited \cup {key} ELSE visited

NextResult(outcome, selected, invoked, visited_file) ==
    [status |-> outcome, selected |-> selected, invoked |-> invoked, visited_file |-> visited_file]

\* The command from the selection on: filtered[idx] is reported, and executed
\* unless --dry-run is given.
SelectAndRun(filtered, idx, a, returncode) ==
    IF filtered = <<>> THEN NextResult("no_candidate", <<>>, FALSE, a.visited)
    ELSE IF idx >= Len(filtered) THEN NextResult("invalid_select_index", <<>>, FALSE, a.visited)
    ELSE IF a.dry_run THEN NextResult("selected", Strip(filtered[idx + 1].query_exec_title), FALSE, a.visited)
    ELSE NextResult(IF returncode = 0 THEN "executed" ELSE "execute_failed", Strip(filtered[idx + 1].query_exec_title), TRUE,
                    VisitedFileAfter(a.visited, a.has_file, a.update_visited, returncode, _canonical_edge_key(Strip(filtered[idx + 1].query_exec_title))))

_cmd_explore_next(a, returncode) ==
    SelectAndRun(UnvisitedOf(build_navigation_candidates(a.nav, a.strategy, a.include_other_queries), a.visited), Max2(0, a.select_index), a, returncode)

InitNext ==
    /\ LoopIdle
    /\ CandIdle
    /\ IterIdle
    /\ IngestIdle
    /\ FetchIdle
    /\ \E nav \in CandNavs, strategy \in {"topic_first", "search_first", "mixed"}, include \in BOOLEAN, has_file \in BOOLEAN, visited \in NextVisitedFiles, select_index \in -1..MaxSelect, dry_run \in BOOLEAN, update_visited \in BOOLEAN :
         /\ has_file \/ visited = {}
         /\ args = [nav |-> nav, strategy |-> strategy, include_other_queries |-> include, has_file |-> has_file, visited |-> visited, select_index |-> select_index, dry_run |-> dry_run, update_visited |-> update_visited]
    /\ ret = <<>>
    /\ called = FALSE

ExploreNext ==
    /\ ~called
    /\ \E returncode \in {0, 1} : ret' = _cmd_explore_next(args, returncode)
    /\ called' = TRUE
    /\ UNCHANGED <<args, outside_fn>>

NextNext == ExploreNext

SpecNext == InitNext /\ [][NextNext]_vars

(***************************************************************************)
(* parse_markdown_to_nodes, one line at a time.  args is the document as   *)
(* the list of its lines (markdown.splitlines()); ret is the parser's      *)
(* state: the four locals, the nodes emitted so far and the number of      *)
(* lines read.  Of a node the fields node_id, content and source_title,    *)
(* which are derived from the others, are left out.  The alphabet has no   *)
(* `&`, so that html.unescape changes nothing.                             *)
(***************************************************************************)

MaxLines == 3

DocLines ==
    { <<"#", " ", "T">>,
      <<"#", " ", "U">>,
      <<"#", "#", " ", "s", "e", "a", "r", "c", "h", "i", "n">>,
      <<"#", "#", " ", "c", "o", "m", "m", "a", "n", "d", ":">>,
      <<"#", "#", " ", ":">>,
      <<"#", "#", "#", " ", "G">>,
      <<"#", "#", "#", " ", "<", "b", ">">>,
      <<"#", "#", "#", " ", "h", "t", "t", "p", ":", "/", "/", "u", "#", "a">>,
      <<"#", "#", "#", " ", "h", "t", "t", "p", ":", "/", "/", "u">>,
      <<"#", "#", "#", " ", ">", "x">>,
      <<"#", "#", "#", " ", "?", "?", "q">>,
      <<"#", "#", "#", " ", "n", " ", "(", ">", ">", "p", ")">>,
      <<"-", " ", "h", "t", "t", "p", ":", "/", "/", "u", "#", "a">>,
      <<" ", "-", " ", "h", "t", "t", "p", ":", "/", "/", "u">>,
      <<"x">> }

\* The position of the first c in s, 0 when there is none.
RECURSIVE FirstIndex(_, _)
FirstIndex(s, c) ==
    IF s = <<>> THEN 0
    ELSE IF s[1] = c THEN 1
    ELSE IF FirstIndex(Tail(s), c) = 0 THEN 0
    ELSE 1 + FirstIndex(Tail(s), c)

\* re.sub(r"<[^>]+>", " ", text)
RECURSIVE StripTags(_)
StripTags(s) ==
    IF s = <<>> THEN <<>>
    ELSE IF s[1] = "<" /\ FirstIndex(s, ">") >= 3 THEN <<" ">> \o StripTags(Drop(s, FirstIndex(s, ">")))
    ELSE <<s[1]>> \o StripTags(Tail(s))

_clean_label(text) == Strip(CollapseWs(StripTags(text)))

\* <<url, anchor>>
_split_url_and_anchor(text) ==
    IF FirstIndex(Strip(text), "#") = 0 THEN <<Strip(text), <<>>>>
    ELSE <<Strip(SubSeq(Strip(text), 1, FirstIndex(Strip(text), "#") - 1)), Strip(Drop(Strip(text), FirstIndex(Strip(text), "#")))>>

\* Variant: an empty section and no group give an empty path.
JoinSectionPathNoRoot(section, group) ==
    IF Strip(group) = <<>> THEN Strip(section)
    ELSE IF Strip(section) = <<>> THEN Strip(group)
    ELSE Strip(section) \o <<"/">> \o Strip(group)

_join_section_path(section, group) ==
    IF Strip(group) = <<>> THEN (IF Strip(section) = <<>> THEN <<"r", "o", "o", "t">> ELSE Strip(section))
    ELSE IF Strip(section) = <<>> THEN Strip(group)
    ELSE Strip(section) \o <<"/">> \o Strip(group)

\* The text that r"\(\s*((?:\?\?|>{1,2})[^)]+)\s*\)" captures when it matches
\* right after an opening parenthesis (rest is what follows it), else <<>>.
DirectiveAfterParen(rest) ==
    IF FirstIndex(LStrip(rest), ")") = 0 THEN <<>>
    ELSE IF StartsWith(LStrip(rest), <<"?", "?">>) /\ FirstIndex(LStrip(rest), ")") >= 4 THEN SubSeq(LStrip(rest), 1, FirstIndex(LStrip(rest), ")") - 1)
    ELSE IF StartsWith(LStrip(rest), <<">">>) /\ FirstIndex(LStrip(rest), ")") >= 3 THEN SubSeq(LStrip(rest), 1, FirstIndex(LStrip(rest), ")") - 1)
    ELSE <<>>

\* group(1) of the leftmost match of that expression in value, <<>> without
\* a match.
RECURSIVE EmbeddedDirective(_)
EmbeddedDirective(value) ==
    IF value = <<>> THEN <<>>
    ELSE IF value[1] = "(" /\ DirectiveAfterParen(Tail(value)) # <<>> THEN DirectiveAfterParen(Tail(value))
    ELSE EmbeddedDirective(Tail(value))

_is_query_payload(payload_raw) ==
    \/ StartsWith(payload_raw, <<">">>)
    \/ StartsWith(payload_raw, <<"?", "?">>)
    \/ EmbeddedDirective(payload_raw) # <<>>

\* `value = m.group(1).strip()` when the expression matches.
DirectiveOf(value) ==
    IF EmbeddedDirective(value) # <<>> THEN Strip(EmbeddedDirective(value)) ELSE value

\* The end of _normalize_query_exec_title: the title of a searchin section.
SectionFallback(section, fallback_title) ==
    IF StartsWith(Lower(Strip(section)), <<"s", "e", "a", "r", "c", "h", "i", "n">>) /\ _clean_label(fallback_title) # <<>>
    THEN <<">">> \o _clean_label(fallback_title) \o <<"/">>
    ELSE <<>>

\* _normalize_query_exec_title on the value chosen from the query and the
\* fallback title.
NormalizeValue(value, section, fallback_title) ==
    IF value = <<>> THEN <<>>
    ELSE IF NormalizeCollapsed(CollapseMarker(DirectiveOf(value))) # <<>> THEN NormalizeCollapsed(CollapseMarker(DirectiveOf(value)))
    ELSE SectionFallback(section, fallback_title)

\* _normalize_query_exec_title with its section and fallback title.
NormalizeQueryIn(raw_query, section, fallback_title) ==
    IF Strip(raw_query) # <<>> THEN NormalizeValue(Strip(raw_query), section, fallback_title)
    ELSE IF Strip(fallback_title) # <<>> THEN NormalizeValue(<<">">> \o Strip(fallback_title), section, fallback_title)
    ELSE <<>>

_classify_query_kind(section, exec_title) ==
    IF StartsWith(Lower(Strip(section)), <<"s", "e", "a", "r", "c", "h", "i", "n">>) THEN "topic_nav"
    ELSE IF StartsWith(Lower(Strip(section)), <<"c", "o", "m", "m", "a", "n", "d">>) THEN "kb_search"
    ELSE IF StartsWith(exec_title, <<"?", "?">>) THEN "topic_lookup"
    ELSE IF StartsWith(exec_title, <<">">>) THEN "query"
    ELSE "unknown"

\* `topic or "unknown-topic"`
TopicOr(topic) == IF topic = <<>> THEN <<"u", "n", "k", "n", "o", "w", "n", "-", "t", "o", "p", "i", "c">> ELSE topic

FirstNonEmpty(a, b, c) == IF a # <<>> THEN a ELSE IF b # <<>> THEN b ELSE c

LinkNode(st, title, url) ==
    [node_type |-> "link", topic |-> TopicOr(st.topic), section |-> _join_section_path(st.section, st.current_group),
     title |-> title, url |-> url, query_cmd |-> <<>>, query_exec_title |-> <<>>, query_kind |-> "", query_source |-> <<>>]

QueryNode(st, query_cmd, query_exec_title) ==
    [node_type |-> "query", topic |-> TopicOr(st.topic), section |-> _join_section_path(st.section, st.current_group),
     title |-> _clean_label(IF st.pending_title # <<>> THEN st.pending_title ELSE query_cmd), url |-> <<>>, query_cmd |-> query_cmd,
     query_exec_title |-> query_exec_title, query_kind |-> _classify_query_kind(st.section, query_exec_title),
     query_source |-> Lower(Strip(st.section))]

CategoryNode(st, payload) ==
    [node_type |-> "category", topic |-> TopicOr(st.topic), section |-> _join_section_path(st.section, payload),
     title |-> payload, url |-> <<>>, query_cmd |-> <<>>, query_exec_title |-> <<>>, query_kind |-> "", query_source |-> <<>>]

\* A node is appended and the pending title dropped.
Emit(st, node) == [st EXCEPT !.nodes = Append(@, node), !.pending_title = <<>>]

\* A `### ` line whose payload is a URL: the title is the pending title,
\* else the anchor, else the URL.
HeadingLink(st, url, anchor) ==
    Emit(st, LinkNode(st, _clean_label(FirstNonEmpty(st.pending_title, _clean_label(anchor), url)), url))

\* A `- http` line: the title is the anchor, else the pending title, else
\* the URL.
BulletLink(st, url, anchor) ==
    Emit(st, LinkNode(st, _clean_label(FirstNonEmpty(_clean_label(anchor), st.pending_title, url)), url))

IsUrl(text) ==
    \/ StartsWith(text, <<"h", "t", "t", "p", ":", "/", "/">>)
    \/ StartsWith(text, <<"h", "t", "t", "p", "s", ":", "/", "/">>)

\* A `### ` line with payload_raw = line[4:].strip().
Heading3(st, payload_raw) ==
    IF IsUrl(payload_raw) THEN HeadingLink(st, _split_url_and_anchor(payload_raw)[1], _split_url_and_anchor(payload_raw)[2])
    ELSE IF _is_query_payload(payload_raw) THEN Emit(st, QueryNode(st, payload_raw, NormalizeQueryIn(payload_raw, st.section, st.pending_title)))
    ELSE [st EXCEPT !.current_group = _clean_label(payload_raw), !.pending_title = _clean_label(payload_raw),
                    !.nodes = Append(@, CategoryNode(st, _clean_label(payload_raw)))]

\* The body of the loop on line = raw_line.strip().
ParseStripped(st, line) ==
    IF line = <<>> THEN st
    ELSE IF StartsWith(line, <<"#", " ">>) THEN [st EXCEPT !.topic = _clean_label(Strip(Drop(line, 2)))]
    ELSE IF StartsWith(line, <<"#", "#", " ">>)
         THEN [st EXCEPT !.section = _clean_label(RStripCh(Strip(Drop(line, 3)), ":")), !.current_group = <<>>, !.pending_title = <<>>]
    ELSE IF StartsWith(line, <<"#", "#", "#", " ">>) THEN Heading3(st, Strip(Drop(line, 4)))
    ELSE IF StartsWith(line, <<"-", " ">>) /\ IsUrl(Drop(line, 2))
         THEN BulletLink(st, _split_url_and_anchor(Strip(Drop(line, 2)))[1], _split_url_and_anchor(Strip(Drop(line, 2)))[2])
    ELSE st

InitParse ==
    /\ LoopIdle
    /\ CandIdle
    /\ IterIdle
    /\ IngestIdle
    /\ FetchIdle
    /\ args \in UNION { [1..n -> DocLines] : n \in 0..MaxLines }
    /\ ret = [topic |-> <<>>, section |-> <<"r", "o", "o", "t">>, current_group |-> <<>>, pending_title |-> <<>>, nodes |-> <<>>, pos |-> 0]
    /\ called = FALSE

\* One turn of `for raw_line in markdown.splitlines()`.
ParseLine ==
    /\ ret.pos < Len(args)
    /\ ret' = [ParseStripped(ret, Strip(args[ret.pos + 1])) EXCEPT !.pos = ret.pos + 1]
    /\ called' = TRUE
    /\ UNCHANGED <<args, outside_fn>>

NextParse == ParseLine

SpecParse == InitParse /\ [][NextParse]_vars

(***************************************************************************)
(* The explore-loop command with both visited files given: the files are   *)
(* loaded, explore_loop runs on the loaded sets, and with --update-visited *)
(* the files are rewritten from the report explore_loop returned.  args    *)
(* holds the two files and the flag, ret the two files after the command.  *)
(***************************************************************************)

\* `sorted(list(visited_exec))[:200]`
VisitedReportCap == 200

CmdKeyChars == {"a", "b", "c", "d", "e", "h"}

\* 216 canonical exec keys, more than the report lists.
ManyKeys == { <<">", x, y, z>> : x, y, z \in CmdKeyChars }

NoFile == [state |-> "missing", items |-> <<>>]

CmdExecFiles == { NoFile, save_visited({<<">", "b", "/">>}), save_visited(ManyKeys) }

\* The seeds run against the large file.
CmdSeeds == { <<">", "b", "/">>, <<" ">> }

CmdTopicFiles == { NoFile, save_visited({<<"c">>}) }

\* payload.get("visited_exec_titles", []) and payload.get("visited_topic_keys",
\* []): the report of a run lists the first 200 keys in sorted order, the
\* report of an invalid seed has no such entry.
ReportedKeys(run_status, keys) ==
    IF run_status = "invalid_seed" THEN <<>> ELSE Take(SortedStrs(keys), VisitedReportCap)

\* The two files after `if args.update_visited: ...`.
FilesAfter(update_visited, files, run_status, vexec, vtopics) ==
    IF update_visited
    THEN [visited_file |-> save_visited(Range(ReportedKeys(run_status, vexec))),
          visited_topics_file |-> save_visited(Range(ReportedKeys(run_status, vtopics)))]
    ELSE [visited_file |-> files.visited_file, visited_topics_file |-> files.visited_topics_file]

InitCmd ==
    /\ CandIdle
    /\ IterIdle
    /\ IngestIdle
    /\ FetchIdle
    /\ args \in [visited_file : CmdExecFiles, visited_topics_file : CmdTopicFiles, update_visited : BOOLEAN]
    /\ ret = <<>>
    /\ called = FALSE
    /\ seed_input \in Seeds
    /\ Len(args.visited_file.items) > VisitedReportCap => (args.update_visited /\ seed_input \in CmdSeeds)
    /\ max_steps \in 1..MaxSteps
    /\ max_depth \in 0..MaxDepth
    /\ max_seconds = 0
    /\ max_branching = MaxBranching
    /\ edge_strategy = "searchin_command_backlink"
    /\ include_backlinks \in BOOLEAN
    /\ include_other_queries = FALSE
    /\ visited_exec = load_visited("exec", args.visited_file)
    /\ visited_topics = load_visited("topic", args.visited_topics_file)
    /\ trace = <<>>
    /\ steps_executed = 0
    /\ aux_fetch_count = 0
    /\ elapsed = 0
    /\ stop_reason = "frontier_exhausted"
    /\ cur = NoCur
    /\ calls = <<>>
    /\ SeedEntry(_normalize_seed_input(seed_input))

\* explore_loop has returned: the files are rewritten or left alone.
SaveVisitedFiles ==
    /\ pc = "done"
    /\ ~called
    /\ ret' = FilesAfter(args.update_visited, args, status, visited_exec, visited_topics)
    /\ called' = TRUE
    /\ UNCHANGED <<args, outside_fn>>

NextCmd == Next \/ SaveVisitedFiles

SpecCmd == InitCmd /\ [][NextCmd]_vars

(***************************************************************************)
(* The two key canonicalizers applied to their own result, and a key saved *)
(* and loaded back.                                                        *)
(***************************************************************************)

CanonChars == {">", "b", "B", ":", "/", " "}

CanonTexts == SeqsUpTo(CanonChars, MaxLen)

\* _canonical_edge_key for which = "exec", _canonical_topic_key for "topic".
Canon(which, text) ==
    IF which = "exec" THEN _canonical_edge_key(text) ELSE _canonical_topic_key(text)

InitCanon ==
    /\ LoopIdle
    /\ CandIdle
    /\ IterIdle
    /\ IngestIdle
    /\ FetchIdle
    /\ \E which \in {"exec", "topic"}, text \in CanonTexts : args = [which |-> which, text |-> text]
    /\ ret = <<>>
    /\ called = FALSE

\* The key of the text, the key of that key, and the set loaded from a file
\* to which the key was saved.
CanonTwice ==
    /\ ~called
    /\ ret' = [ once |-> Canon(args.which, args.text),
                twice |-> Canon(args.which, Canon(args.which, args.text)),
                reloaded |-> load_visited(args.which, save_visited({Canon(args.which, args.text)})) ]
    /\ called' = TRUE
    /\ UNCHANGED <<args, outside_fn>>

NextCanon == CanonTwice

SpecCanon == InitCanon /\ [][NextCanon]_vars

(***************************************************************************)
(* explore_loop: properties.                                               *)
(***************************************************************************)

\* The number of calls of one kind issued so far.
CallCount(kind) == Cardinality({i \in DOMAIN calls : calls[i].kind = kind})

LastCall(cs) == cs[Len(cs)]

LastHop(tr) == tr[Len(tr)]

\* The positive time budget has lapsed at clock reading e.
TimeLapsed(e) == max_seconds > 0 /\ e >= max_seconds

\* C1: in every reachable state of explore_loop, steps_executed is the number
\* of primary collaborator calls made for dequeued items and is at most
\* max_steps; the searchin and command section calls are counted by
\* aux_fetch_count alone, and the backlink lookup by neither counter.
C1_StepsArePrimaryCalls ==
    /\ steps_executed = CallCount("primary")
    /\ steps_executed <= max_steps
    /\ aux_fetch_count = CallCount("searchin") + CallCount("command")

\* A run that spent its whole step budget, with section calls and a
\* backlink lookup made along the way.
C1_Witness ==
    /\ pc = "done"
    /\ max_steps >= 2
    /\ steps_executed = max_steps
    /\ aux_fetch_count >= 2
    /\ CallCount("backlink") >= 1
    /\ \E i \in DOMAIN calls : calls[i].kind = "primary" /\ calls[i].returncode # 0

\* C2: whenever the loop test is reached with steps_executed >= max_steps, a
\* non-empty frontier and the time budget not lapsed, the run stops there:
\* nothing is dequeued, no call is made, stop_reason is
\* step_budget_exhausted and at least one item remains in the frontier.
C2_StepBudgetStops ==
    [][ (pc = "loop" /\ queue # <<>> /\ steps_executed >= max_steps /\ ~TimeLapsed(elapsed'))
            => /\ pc' = "done"
               /\ queue' = queue
               /\ trace' = trace
               /\ calls' = calls
               /\ stop_reason' = "step_budget_exhausted"
               /\ Len(queue') >= 1 ]_vars

\* A run stopped by the step budget after at least one step, with items
\* left in the frontier.
C2_Witness ==
    /\ pc = "done"
    /\ stop_reason = "step_budget_exhausted"
    /\ max_steps >= 1
    /\ steps_executed = max_steps
    /\ Len(queue) >= 1
    /\ ~TimeLapsed(elapsed)

\* The reason the order time, steps, frontier gives in the final state.
ReasonTimeStepsFrontier ==
    IF TimeLapsed(elapsed) THEN "time_budget_exhausted"
    ELSE IF steps_executed >= max_steps THEN "step_budget_exhausted"
    ELSE IF queue = <<>> THEN "frontier_exhausted"
    ELSE ""

\* The reason the order frontier, time, steps gives in the final state.
ReasonFrontierTimeSteps ==
    IF queue = <<>> THEN "frontier_exhausted"
    ELSE IF TimeLapsed(elapsed) THEN "time_budget_exhausted"
    ELSE IF steps_executed >= max_steps THEN "step_budget_exhausted"
    ELSE ""

\* C3 as stated: the reported stop_reason is the first condition that holds
\* in the order (1) time budget lapsed, (2) steps_executed >= max_steps,
\* (3) frontier empty, also when several hold at once.
C3_OrderTimeStepsFrontier ==
    (pc = "done" /\ status = "ok") => stop_reason = ReasonTimeStepsFrontier

\* C3: the reported stop_reason is the first condition that holds in the
\* order (1) frontier empty, (2) positive time budget lapsed,
\* (3) steps_executed >= max_steps; one of the three holds when the run ends.
C3_OrderFrontierTimeSteps ==
    (pc = "done" /\ status = "ok") =>
        /\ stop_reason = ReasonFrontierTimeSteps
        /\ stop_reason \in {"frontier_exhausted", "time_budget_exhausted", "step_budget_exhausted"}

\* A run that ends with the frontier empty and the step budget spent at the
\* same test: frontier_exhausted is reported.
C3_Witness ==
    /\ pc = "done"
    /\ status = "ok"
    /\ queue = <<>>
    /\ steps_executed >= 1
    /\ steps_executed >= max_steps
    /\ stop_reason = "frontier_exhausted"

\* C4: when the item dequeued has a canonical input key already in
\* visited_exec, one hop with status skipped_visited_exec is recorded for it,
\* no call is made, and steps_executed, aux_fetch_count, both visited sets
\* and the rest of the frontier are left as they were.
C4_VisitedItemSkipped ==
    [][ (pc = "loop" /\ queue # <<>> /\ queue' # queue /\ InputKey(Strip(Head(queue).input)) \in visited_exec)
            => /\ queue' = Tail(queue)
               /\ Len(trace') = Len(trace) + 1
               /\ SubSeq(trace', 1, Len(trace)) = trace
               /\ LastHop(trace').status = "skipped_visited_exec"
               /\ LastHop(trace').input = Strip(Head(queue).input)
               /\ calls' = calls
               /\ steps_executed' = steps_executed
               /\ aux_fetch_count' = aux_fetch_count
               /\ visited_exec' = visited_exec
               /\ visited_topics' = visited_topics ]_vars

\* An item was skipped because an earlier call of the same run marked its
\* key visited (the key was not loaded before the run).
C4_Witness ==
    /\ trace # <<>>
    /\ LastHop(trace).status = "skipped_visited_exec"
    /\ steps_executed >= 2
    /\ \E i \in DOMAIN calls : calls[i].kind = "primary" /\ InputKey(calls[i].input) # InputKey(LastHop(trace).input)
    /\ InputKey(LastHop(trace).input) \notin {<<">", "b", "/">>}

\* C5: when the collaborator returns a non-zero code for the dequeued item,
\* exactly one hop with status execute_failed is recorded for it, the
\* frontier only loses that item, no section or backlink call follows for
\* it, and control returns to the loop test with the run still going.
C5_FailedCallIsTerminal ==
    [][ (Len(calls') = Len(calls) + 1 /\ LastCall(calls').kind = "primary" /\ LastCall(calls').returncode # 0)
            => /\ Len(trace') = Len(trace) + 1
               /\ SubSeq(trace', 1, Len(trace)) = trace
               /\ LastHop(trace').status = "execute_failed"
               /\ LastHop(trace').input = LastCall(calls').input
               /\ LastHop(trace').enqueued = <<>>
               /\ queue' = Tail(queue)
               /\ aux_fetch_count' = aux_fetch_count
               /\ pc' = "loop"
               /\ status' = "running" ]_vars

\* After a failed call the run went on: a later item of the frontier was
\* called as well.
C5_Witness ==
    \E i \in DOMAIN trace :
        /\ trace[i].status = "execute_failed"
        /\ i < Len(trace)
        /\ trace[i + 1].status \in {"expanded", "depth_budget_reached", "no_topic_root", "execute_failed"}

(***************************************************************************)
(* build_explore_candidates: properties.                                   *)
(***************************************************************************)

\* The kb_search entries among the navigation entries handed in.
KbSearchEntries(nav) ==
    {nav.topic_navigation[i] : i \in {j \in DOMAIN nav.topic_navigation : KindOf(nav.topic_navigation[j]) = "kb_search"}}
        \cup {nav.knowledge_search[i] : i \in {j \in DOMAIN nav.knowledge_search : KindOf(nav.knowledge_search[j]) = "kb_search"}}

\* The kb_search entries handed in whose topic key is visited while their
\* exec key is neither blank nor visited.
VisitedTopicKbSearch ==
    {e \in KbSearchEntries(c_in.searchin) \cup KbSearchEntries(c_in.command) :
        /\ TopicKeyOfTitle(Strip(e.query_exec_title)) \in c_in.visited_topics
        /\ _canonical_edge_key(Strip(e.query_exec_title)) \notin ({<<>>} \cup c_in.visited_exec)}

UnvisitedKbSearchKeys == {_canonical_edge_key(Strip(e.query_exec_title)) : e \in VisitedTopicKbSearch}

ReturnedExecKeys == {_canonical_edge_key(c_out[i].query_exec_title) : i \in DOMAIN c_out}

\* No returned candidate has a visited exec key, and no returned topic_nav
\* or backlink candidate has a visited topic key.
NoVisitedReturned ==
    \A i \in DOMAIN c_out :
        /\ _canonical_edge_key(c_out[i].query_exec_title) \notin c_in.visited_exec
        /\ c_out[i].query_kind \in {"topic_nav", "backlink"} => TopicKeyOfTitle(c_out[i].query_exec_title) \notin c_in.visited_topics

\* C6 as stated: no returned candidate has a visited exec key, no returned
\* topic_nav or backlink candidate has a visited topic key, and every
\* kb_search entry of a visited topic is returned when its exec key is
\* unvisited.
C6_KbSearchAlwaysReturned ==
    c_done => NoVisitedReturned /\ UnvisitedKbSearchKeys \subseteq ReturnedExecKeys

\* C6: no returned candidate has a visited exec key, no returned topic_nav
\* or backlink candidate has a visited topic key, and a kb_search entry of a
\* visited topic is returned when its exec key is unvisited, unless the list
\* was cut to max(1, max_candidates) entries.
C6_VisitedFilters ==
    c_done =>
        /\ NoVisitedReturned
        /\ UnvisitedKbSearchKeys \subseteq ReturnedExecKeys \/ Len(c_out) = Max2(1, c_in.max_candidates)

\* A kb_search candidate of a visited topic is returned while a topic_nav
\* entry of a visited topic and an entry with a visited exec key are not.
C6_Witness ==
    /\ c_done
    /\ \E i \in DOMAIN c_out : c_out[i].query_kind = "kb_search" /\ c_out[i].topic_key \in c_in.visited_topics
    /\ \E j \in DOMAIN c_in.searchin.topic_navigation :
         /\ KindOf(c_in.searchin.topic_navigation[j]) = "topic_nav"
         /\ TopicKeyOfTitle(Strip(c_in.searchin.topic_navigation[j].query_exec_title)) \in c_in.visited_topics
    /\ \E j \in DOMAIN c_in.backlinks : _canonical_edge_key(InputTitle(Strip(c_in.backlinks[j]))) \in c_in.visited_exec

(***************************************************************************)
(* explore_loop: properties of an expansion.                               *)
(***************************************************************************)

\* This step closes an expansion: an "expanded" hop is recorded.
Expands == Len(trace') = Len(trace) + 1 /\ LastHop(trace').status = "expanded"

\* The frontier grows at its tail by exactly the hop's enqueued inputs.
AppendedInOrder(enq) ==
    /\ Len(queue') = Len(queue) + Len(enq)
    /\ SubSeq(queue', 1, Len(queue)) = queue
    /\ \A i \in DOMAIN enq : queue'[Len(queue) + i].input = enq[i].input

\* The rank of a source tag under the default strategy.
DefaultRank(source) ==
    CASE source = "searchin_section" -> 0 [] source = "command_section" -> 1 [] source = "backlink" -> 2 [] OTHER -> 9

\* C7: under the default strategy searchin_command_backlink, the candidates
\* of an expansion are appended to the frontier in the order returned, and
\* in that order every searchin candidate comes before every command
\* candidate, which comes before every backlink candidate.
C7_DefaultSourceOrder ==
    [][ (Expands /\ edge_strategy = "searchin_command_backlink")
            => /\ AppendedInOrder(LastHop(trace').enqueued)
               /\ \A i, j \in DOMAIN LastHop(trace').enqueued :
                    i < j => DefaultRank(LastHop(trace').enqueued[i].source) <= DefaultRank(LastHop(trace').enqueued[j].source) ]_vars

\* Under the default strategy an expansion enqueued a searchin candidate of
\* kind topic_nav ahead of a candidate of kind kb_search or backlink.
C7_Witness ==
    /\ edge_strategy = "searchin_command_backlink"
    /\ \E h \in DOMAIN trace :
         /\ trace[h].status = "expanded"
         /\ Len(trace[h].enqueued) >= 2
         /\ trace[h].enqueued[1].source = "searchin_section"
         /\ trace[h].enqueued[1].query_kind = "topic_nav"
         /\ trace[h].enqueued[2].source \in {"command_section", "backlink"}

\* x does not sort after y by (source priority, kind, exec title).
SortKeyLeq(x, y) ==
    \/ SourcePriority(edge_strategy, x.source) < SourcePriority(edge_strategy, y.source)
    \/ /\ SourcePriority(edge_strategy, x.source) = SourcePriority(edge_strategy, y.source)
       /\ \/ KindOrd(x.query_kind) < KindOrd(y.query_kind)
          \/ /\ x.query_kind = y.query_kind
             /\ ~StrLess(Lower(y.query_exec_title), Lower(x.query_exec_title))

\* C8: each expansion appends at most max_branching items (max_branching
\* >= 1) to the tail of the frontier, in the order sorted by (source
\* priority, kind, exec title); each has the expanded item's depth + 1 and
\* the candidate's source tag as via.
C8_BranchingCap ==
    [][ Expands
            => /\ Len(LastHop(trace').enqueued) <= max_branching
               /\ AppendedInOrder(LastHop(trace').enqueued)
               /\ \A i, j \in DOMAIN LastHop(trace').enqueued :
                    i < j => SortKeyLeq(LastHop(trace').enqueued[i], LastHop(trace').enqueued[j])
               /\ \A i \in DOMAIN LastHop(trace').enqueued :
                    /\ queue'[Len(queue) + i].depth = LastHop(trace').depth + 1
                    /\ queue'[Len(queue) + i].via = LastHop(trace').enqueued[i].source ]_vars

\* An expansion with max_branching = 1 enqueued one item although the
\* sections returned more, and the item sits at the frontier's tail.
C8_Witness ==
    /\ max_branching = 1
    /\ pc = "loop"
    /\ trace # <<>>
    /\ LastHop(trace).status = "expanded"
    /\ Len(LastHop(trace).enqueued) = 1
    /\ queue # <<>>
    /\ queue[Len(queue)].input = LastHop(trace).enqueued[1].input
    /\ queue[Len(queue)].depth = LastHop(trace).depth + 1
    /\ \E i \in DOMAIN calls : calls[i].kind = "backlink"

\* C9: every item in the frontier has depth <= max_depth (max_depth >= 0),
\* and a successful call for an item dequeued at depth >= max_depth closes
\* the item with status depth_budget_reached: no section fetch, no backlink
\* lookup, nothing enqueued.
C9_DepthBudget ==
    /\ [](\A i \in DOMAIN queue : queue[i].depth <= max_depth)
    /\ [][ (Len(calls') = Len(calls) + 1 /\ LastCall(calls').kind = "primary" /\ LastCall(calls').returncode = 0 /\ Head(queue).depth >= max_depth)
            => /\ Len(trace') = Len(trace) + 1
               /\ LastHop(trace').status = "depth_budget_reached"
               /\ LastHop(trace').enqueued = <<>>
               /\ queue' = Tail(queue)
               /\ aux_fetch_count' = aux_fetch_count
               /\ pc' = "loop" ]_vars

\* An enqueued item at depth max_depth >= 1 was called successfully and
\* closed with depth_budget_reached.
C9_Witness ==
    /\ max_depth >= 1
    /\ trace # <<>>
    /\ LastHop(trace).status = "depth_budget_reached"
    /\ LastHop(trace).depth = max_depth
    /\ LastHop(trace).returncode = 0
    /\ pc = "loop"

(***************************************************************************)
(* iterative_search: properties.                                           *)
(***************************************************************************)

\* A ledger round that returned hits with a gain below the threshold.
LowRound(r) == r.hits >= 1 /\ GainBelow(r.gain, gain_threshold)

\* The last k rounds of the ledger are all low rounds.
LastRoundsLow(k) == Len(rounds) >= k /\ \A j \in (Len(rounds) - k + 1)..Len(rounds) : LowRound(rounds[j])

\* C10: once the last low_gain_rounds rounds (low_gain_rounds >= 1) each
\* returned at least one hit with a gain below gain_threshold, the run has
\* stopped right after the last of them with stop_reason low_gain; after a
\* round with hits whose gain is at or above the threshold the streak is 0.
C10_LowGainStops ==
    /\ (low_gain_rounds >= 1 /\ LastRoundsLow(low_gain_rounds))
          => (ipc = "done" /\ iter_stop_reason = "low_gain")
    /\ (rounds # <<>> /\ rounds[Len(rounds)].hits >= 1 /\ ~GainBelow(rounds[Len(rounds)].gain, gain_threshold))
          => low_gain_streak = 0

\* A run of three rounds: the first at the threshold, then two low rounds,
\* which stop the run with low_gain.
C10_Witness ==
    /\ ipc = "done"
    /\ iter_stop_reason = "low_gain"
    /\ low_gain_rounds = 2
    /\ Len(rounds) = 3
    /\ rounds[1].hits >= 1 /\ ~GainBelow(rounds[1].gain, gain_threshold)
    /\ LowRound(rounds[2]) /\ LowRound(rounds[3])
    /\ rounds[2].new_hits >= 1

\* The last k ledger rounds exist and each has a gain below the threshold.
LastGainsBelow(k) ==
    Len(rounds) >= k /\ \A j \in (Len(rounds) - k + 1)..Len(rounds) : rounds[j].gain.num * gain_threshold.den < gain_threshold.num * rounds[j].gain.den

RECURSIVE AppendedBy(_)
AppendedBy(n) == IF n = 0 THEN <<>> ELSE AppendedBy(n - 1) \o rounds[n].expanded_queries

\* The queries searched so far, in order.
SearchedQueries == [i \in 1..Len(rounds) |-> rounds[i].query]

NoDuplicates(seq) == \A i, j \in DOMAIN seq : seq[i] = seq[j] => i = j

\* C12: the frontier is FIFO: the queries searched so far followed by the
\* queries still waiting are the seed followed by every appended query, in
\* the order of appending; and no query_cmd value is appended twice in a
\* run.
C12_FrontierFifo ==
    (ipc \in {"round", "done"} /\ Strip(query) # <<>>) =>
        /\ SearchedQueries \o frontier = <<Strip(query)>> \o AppendedBy(Len(rounds))
        /\ NoDuplicates(AppendedBy(Len(rounds)))

\* The first round appended two queries, which were searched next in that
\* order; the second round's hits carried a command already appended and
\* appended nothing.
C12_Witness ==
    /\ follow_query_nodes
    /\ Len(rounds) = 3
    /\ Len(rounds[1].expanded_queries) = 2
    /\ rounds[2].query = rounds[1].expanded_queries[1]
    /\ rounds[3].query = rounds[1].expanded_queries[2]
    /\ rounds[2].hits = 2
    /\ rounds[2].expanded_queries = <<>>

(***************************************************************************)
(* build_index: properties.                                                *)
(***************************************************************************)

\* The first position of node id `id` in the input.
FirstWithId(nodes, id) == CHOOSE i \in DOMAIN nodes : nodes[i].node_id = id /\ \A j \in 1..(i - 1) : nodes[j].node_id # id

\* C13: the store build_index produces holds at most one node per node id,
\* holds every id of the input, and for each id holds the first node of the
\* input with that id; later ones are dropped and the call completes.
C13_FirstOccurrenceStored ==
    called =>
        /\ \A i, j \in DOMAIN ret : ret[i].node_id = ret[j].node_id => i = j
        /\ {ret[i].node_id : i \in DOMAIN ret} = {args[i].node_id : i \in DOMAIN args}
        /\ \A i \in DOMAIN ret : ret[i] = args[FirstWithId(args, ret[i].node_id)]

\* An input in which an id occurs twice with different content: one row is
\* stored for it.
C13_Witness ==
    /\ called
    /\ Len(ret) < Len(args)
    /\ \E i, j \in DOMAIN args : i < j /\ args[i].node_id = args[j].node_id /\ args[i].title # args[j].title
    /\ Len(ret) = 2

(***************************************************************************)
(* search_index: properties.                                               *)
(***************************************************************************)

\* C14: every hit appended by expansion (category_child or section_related)
\* has the topic and the section of one of the direct hits of the same
\* result, also when another topic uses the same section name.
C14_ExpansionStaysInTopic ==
    called =>
        \A i \in DOMAIN ret :
            ret[i].match_type \in {"category_child", "section_related"} =>
                \E j \in DOMAIN ret :
                    /\ ret[j].match_type = "direct"
                    /\ ret[j].topic = ret[i].topic
                    /\ ret[j].section = ret[i].section

\* A link of topic T1 was expanded by section "s", which topic T2 uses as
\* well: a T1 row was appended and no T2 row is in the result.
C14_Witness ==
    /\ called
    /\ \E i \in DOMAIN ret : ret[i].match_type = "section_related" /\ ret[i].topic = "T1" /\ ret[i].section = "s"
    /\ \A i \in DOMAIN ret : ret[i].topic = "T1"

\* C15: the result holds no node id twice; the matcher's hits come first,
\* in the matcher's order, tagged direct, and every appended row is an
\* expansion row.
C15_NoDuplicateIds ==
    called =>
        /\ \A i, j \in DOMAIN ret : ret[i].node_id = ret[j].node_id => i = j
        /\ Len(ret) >= Len(args.rows)
        /\ \A i \in DOMAIN args.rows : ret[i].node_id = args.rows[i].node_id /\ ret[i].match_type = "direct"
        /\ \A i \in (Len(args.rows) + 1)..Len(ret) : ret[i].match_type \in {"category_child", "section_related"}

\* A category and one of its children are both direct hits and a link of
\* the same section is expanded as well: the child is in the result once.
C15_Witness ==
    /\ called
    /\ args.expand_categories
    /\ args.expand_related_sections
    /\ \E i, j \in DOMAIN args.rows :
         /\ args.rows[i].node_type = "category"
         /\ args.rows[j].node_type = "link"
         /\ args.rows[j].topic = args.rows[i].topic
         /\ args.rows[j].section = args.rows[i].section
    /\ Len(ret) > Len(args.rows)

(***************************************************************************)
(* should_ingest: properties.                                              *)
(***************************************************************************)

\* The metadata file is a readable record that matches the text and the
\* expected pipeline version.
MetaMatches ==
    /\ meta_file.state = "record"
    /\ meta_file.pipeline_version = expected_pipeline_version
    /\ meta_file.raw_sha = Sha(raw_text)

C17_SaveLoadRoundTrip ==
    called => ret = (IF args.file.state = "dict" THEN Range(args.inserted) ELSE {})

\* What holds of the code: the same for the topic keys and for the missing
\* and unparseable files only.
C17_TopicKeysRoundTrip ==
    (called /\ (args.which = "topic" \/ args.file.state # "dict")) =>
        ret = (IF args.file.state = "dict" THEN Range(args.inserted) ELSE {})

\* Two exec keys were saved and loaded back unchanged.
C17_Witness ==
    /\ called
    /\ args.which = "exec"
    /\ args.file.state = "dict"
    /\ Len(args.inserted) = 2
    /\ ret = Range(args.inserted)

(***************************************************************************)
(* Input derivation and title resolution: properties.                      *)
(***************************************************************************)

\* C18: resolving "xlb " + p gives back the payload p, and resolving the
\* input derived from a directive title t (one that starts with `>`, `??` or
\* `->`) gives back t.
C18_ResolveInvertsInput ==
    called => ret = args.text

\* What holds of the code: the same, the titles that start with `->` excepted.
C18_InverseExceptArrow ==
    (called /\ ~(args.form = "title" /\ StartsWith(args.text, <<"-", ">">>))) => ret = args.text

\* The title `?? a` went through derivation and resolution and came back.
C18_Witness ==
    /\ called
    /\ args = [form |-> "title", text |-> <<"?", "?", "a">>]
    /\ ret = args.text

(***************************************************************************)
(* graph_neighbors_from_edges: properties.                                 *)
(***************************************************************************)

\* The target written for topic `a` in one of the forms `>T/`, `->T/:`, `>>T`.
TargetIsTopicA == args.target_title \in { <<">", "a", "/">>, <<"-", ">", "A", "/", ":">>, <<">", ">", "a">> }

\* The positions of the edges that point at the canonical target, and of
\* those that leave the target's topic.
PointingAt(key) == {i \in DOMAIN args.edges : _canonical_exec_title_key(args.edges[i].query_exec_title) = key}

LeavingFrom(key) == {i \in DOMAIN args.edges : key # <<>> /\ _canonical_topic_key(args.edges[i].topic) = key}

Occurrences(seq, e) == Cardinality({i \in DOMAIN seq : seq[i] = e})

DistinctUrls == {Strip(urls[i]) : i \in DOMAIN urls} \ {<<>>}

\* How the task of a URL ended.
EndOf(url) == task[CHOOSE i \in DOMAIN uniq : uniq[i] = url]

\* C20: whatever the order in which the tasks ran and ended, the list
\* returned holds exactly one record per distinct non-blank URL, in
\* ascending order of URL; the record of a URL whose fetch raised has the
\* status error, and every other record has the status its own fetch
\* returned.
C20_OneRecordPerUrlSorted ==
    fetch_pc = "done" =>
      /\ {fetched[i].url : i \in DOMAIN fetched} = DistinctUrls
      /\ Len(fetched) = Cardinality(DistinctUrls)
      /\ \A i \in 1..(Len(fetched) - 1) : StrLess(fetched[i].url, fetched[i + 1].url)
      /\ \A i \in DOMAIN fetched :
           fetched[i].status = (IF EndOf(fetched[i].url) = "raised" THEN "error" ELSE EndOf(fetched[i].url))

\* Three URLs were fetched by two threads; the fetch of `b` raised and was
\* consumed first, the two others returned, and the list is in URL order.
C20_Witness ==
    /\ fetch_pc = "done"
    /\ max_workers = 2
    /\ Len(fetched) = 3
    /\ results[1] = [url |-> <<"b">>, status |-> "error"]
    /\ fetched[1].status = "downloaded"
    /\ fetched[2].status = "error"
    /\ fetched[3].status = "cached"

(***************************************************************************)
(* Blank seeds.                                                            *)
(***************************************************************************)

\* C25: with an empty or whitespace-only seed explore_loop answers
\* invalid_seed and makes no collaborator or graph call, and iterative_search
\* answers empty_query with 0 iterations, 0 unique hits and no index query.
C25_BlankSeedDoesNothing ==
    /\ (pc # "idle" /\ Strip(seed_input) = <<>>) =>
          /\ status = "invalid_seed" /\ pc = "done"
          /\ calls = <<>> /\ trace = <<>> /\ steps_executed = 0 /\ aux_fetch_count = 0
    /\ (ipc # "idle" /\ Strip(query) = <<>>) =>
          /\ ipc = "done" /\ rounds = <<>> /\ seen_node_ids = {}
          /\ iter_result = [iterations |-> 0, stop_reason |-> "empty_query", unique_hits |-> 0, frontier_remaining |-> 0]

\* explore_loop was called with the seed " ".
C25_Witness ==
    /\ seed_input = <<" ">>
    /\ status = "invalid_seed"
    /\ pc = "done"

(***************************************************************************)
(* explore_loop: the visited sets after a failed call.                     *)
(***************************************************************************)

\* C26: a collaborator call that returns a non-zero code adds no key to the
\* visited-exec set and none to the visited-topic set.
C26_FailedCallMarksNothing ==
    [][ (Len(calls') = Len(calls) + 1 /\ LastCall(calls').kind = "primary" /\ LastCall(calls').returncode # 0)
            => /\ visited_exec' = visited_exec
               /\ visited_topics' = visited_topics ]_vars

\* A failed call whose input key is in the visited-exec set although it was
\* not there when the run began with empty sets.
C26_Witness ==
    /\ trace # <<>>
    /\ LastHop(trace).status = "execute_failed"
    /\ Len(calls) = 1
    /\ InputKey(LastCall(calls).input) \in visited_exec

(***************************************************************************)
(* The visited-exec key: properties.                                       *)
(***************************************************************************)

\* A reference without its letter case, trailing `:` and trailing `/`.
Folded(reference) == RStripCh(RStripCh(Lower(reference), ":"), "/")

\* C27: two references that differ only in letter case, in a trailing `:` or
\* in a trailing `/` have the same visited-exec key: once one was executed,
\* the other is skipped at dequeue and rejected as a candidate.
C27_SameReferenceSameKey ==
    (called /\ Folded(args.executed) = Folded(args.met)) => (ret.skipped /\ ret.rejected)

\* `>X/` was executed and `>x/:` is skipped and rejected.
C27_Witness ==
    /\ called
    /\ args = [executed |-> <<">", "X", "/">>, met |-> <<">", "x", "/", ":">>]
    /\ ret.skipped
    /\ ret.rejected

(***************************************************************************)
(* build_navigation_candidates: properties.                                *)
(***************************************************************************)

\* The p-th entry when the two lists alternate pairwise, the first list
\* leading, and the longer list's remainder follows.
AlternateAt(a, b, p) ==
    IF p <= 2 * Min2(Len(a), Len(b))
    THEN IF p % 2 = 1 THEN a[(p + 1) \div 2] ELSE b[p \div 2]
    ELSE IF Len(a) > Len(b) THEN a[p - Len(b)] ELSE b[p - Len(a)]

\* The entries in the order the strategy asks for, other_queries last.
AskedOrder ==
    (IF args.strategy = "topic_first" THEN args.nav.topic_navigation \o args.nav.knowledge_search
     ELSE IF args.strategy = "search_first" THEN args.nav.knowledge_search \o args.nav.topic_navigation
     ELSE [p \in 1..(Len(args.nav.topic_navigation) + Len(args.nav.knowledge_search)) |-> AlternateAt(args.nav.topic_navigation, args.nav.knowledge_search, p)])
       \o (IF args.include_other_queries THEN args.nav.other_queries ELSE <<>>)

\* The positions of AskedOrder that survive: the exec title is not blank and
\* no earlier entry with an exec title has the same (kind, source, key).
KeptPositions ==
    {i \in DOMAIN AskedOrder :
        /\ Strip(AskedOrder[i].query_exec_title) # <<>>
        /\ \A j \in 1..(i - 1) : Strip(AskedOrder[j].query_exec_title) = <<>> \/ NavKey(AskedOrder[j]) # NavKey(AskedOrder[i])}

NthKept(k) == CHOOSE i \in KeptPositions : Cardinality({j \in KeptPositions : j < i}) = k - 1

\* C24: the candidates are the entries in strategy order (topic_first: the
\* topic_navigation entries then the knowledge_search ones; search_first the
\* reverse; mixed: alternating, topic_navigation first), other_queries last
\* and only when asked for, without the entries whose exec title is blank
\* and without those that repeat the (kind, source, canonical key) of an
\* earlier one.
C24_StrategyOrder ==
    called =>
      /\ Len(ret) = Cardinality(KeptPositions)
      /\ \A k \in DOMAIN ret : ret[k] = AskedOrder[NthKept(k)]

\* mixed with two topic entries, one of them with a blank exec title, and
\* other_queries: a topic entry, a search entry and the other query come out.
C24_Witness ==
    /\ called
    /\ args.strategy = "mixed"
    /\ args.include_other_queries
    /\ Len(args.nav.topic_navigation) = 2
    /\ Len(ret) = 3
    /\ ret[1].query_kind = "topic_nav"
    /\ ret[2].query_kind = "kb_search"
    /\ ret[3].query_kind = ""
    /\ \E i \in DOMAIN args.nav.topic_navigation : Strip(args.nav.topic_navigation[i].query_exec_title) = <<>>

(***************************************************************************)
(* The artifact cache: properties.                                         *)
(***************************************************************************)

\* A call of _download_one has just returned or raised.
Downloaded == ret' # ret \/ args' # args

\* C21: once a fetch of the URL has succeeded, a fetch in the same rendering
\* mode answers cached without a network call; a fetch in a mode other than
\* the one the metadata records does not answer cached, calls the network
\* and, when it succeeds, rewrites the metadata.
C21_CacheHitNeedsSameMode ==
    [][ Downloaded =>
          /\ (args.last_ok_mode # "" /\ ret'.html_mode = args.last_ok_mode) =>
                (ret'.status = "cached" /\ args'.network_calls = args.network_calls)
          /\ (args.meta.state = "record" /\ args.meta.html_mode # "" /\ ret'.html_mode # args.meta.html_mode) =>
                /\ ret'.status # "cached"
                /\ args'.network_calls = args.network_calls + 1
                /\ ret'.status # "raised" => (args'.meta.state = "record" /\ args'.meta.html_mode \in {"", ret'.html_mode})
                /\ ret'.status \in {"converted_local", "converted_external"} => args'.meta.html_mode = ret'.html_mode ]_vars

\* A page was fetched as markdown, fetched again as text because the mode
\* differed, then answered from the cache as text.
C21_Witness ==
    /\ args.network_calls = 2
    /\ args.last_ok_mode = "text"
    /\ args.files = {"md", "txt"}
    /\ args.meta = CacheMeta("record", "txt", "text")
    /\ ret = [html_mode |-> "text", status |-> "cached"]

(***************************************************************************)
(* prefetch_from_index: properties.                                        *)
(***************************************************************************)

\* C22: with require_confirmation set and network_confirmed not set the
\* index is not searched, no URL is fetched, and the report has skipped,
\* the reason network_confirmation_required and every counter at zero.
C22_UnconfirmedPrefetchSkips ==
    (called /\ args.require_confirmation /\ ~args.network_confirmed) =>
        /\ ~ret.searched /\ ~ret.fetch_called
        /\ ret.skipped /\ ret.skip_reason = "network_confirmation_required"
        /\ ret.urls = 0 /\ ret.results = <<>>
        /\ ret.downloaded = 0 /\ ret.converted_local = 0 /\ ret.converted_external = 0
        /\ ret.cached = 0 /\ ret.errors = 0

\* The index holds two links that match, and the unconfirmed call skipped.
C22_Witness ==
    /\ called
    /\ args.require_confirmation /\ ~args.network_confirmed
    /\ Len(LinkUrls(args.hits)) = 2
    /\ ret.skipped

(***************************************************************************)
(* explore-next: properties.                                               *)
(***************************************************************************)

NotVisitedYet(c) == _canonical_edge_key(c.query_exec_title) \notin args.visited

\* The candidates in strategy order whose key is not in the visited file.
OpenCandidates ==
    SelectSeq(build_navigation_candidates(args.nav, args.strategy, args.include_other_queries), NotVisitedYet)

Selects == called /\ ret.status \in {"selected", "executed", "execute_failed"}

\* The rest of C23: --dry-run reports selected without invoking the
\* collaborator or writing the visited file; otherwise the visited file gains
\* the selected key when --update-visited is given and the collaborator
\* returned 0, and is left as it was in every other case.
DryRunAndVisitedFile ==
    /\ (Selects /\ args.dry_run) => (ret.status = "selected" /\ ~ret.invoked /\ ret.visited_file = args.visited)
    /\ (Selects /\ ~args.dry_run) =>
          /\ ret.invoked
          /\ ret.visited_file \in {args.visited, args.visited \cup {_canonical_edge_key(ret.selected)}}
          /\ ret.visited_file # args.visited => (args.has_file /\ args.update_visited /\ ret.status = "executed")
          /\ (args.has_file /\ args.update_visited /\ ret.status = "executed") => _canonical_edge_key(ret.selected) \in ret.visited_file
    /\ (called /\ ~Selects) => (~ret.invoked /\ ret.visited_file = args.visited)

Root == <<"r", "o", "o", "t">>

\* The line read last, stripped.
LineRead == IF ret.pos = 0 THEN <<>> ELSE Strip(args[ret.pos])

IsTopicHeading(line) == StartsWith(line, <<"#", " ">>)

IsSectionHeading(line) == StartsWith(line, <<"#", "#", " ">>)

IsBullet(line) == StartsWith(line, <<"-", " ", "h", "t", "t", "p">>)

LastNode(st) == st.nodes[Len(st.nodes)]

\* C28: a first-level heading sets the topic and resets the section state
\* (section root, no open group, no pending title), so that a link which
\* follows it directly is addressed under root; a second-level heading sets
\* the section and clears the open group and the pending title.
C28_TopicHeadingResets ==
    /\ IsTopicHeading(LineRead) =>
          /\ ret.topic = Strip(Drop(LineRead, 2))
          /\ ret.section = Root
          /\ ret.current_group = <<>>
          /\ ret.pending_title = <<>>
    /\ (ret.pos >= 2 /\ IsTopicHeading(Strip(args[ret.pos - 1])) /\ IsBullet(LineRead)) => LastNode(ret).section = Root
    /\ IsSectionHeading(LineRead) =>
          /\ ret.section = RStripCh(Strip(Drop(LineRead, 3)), ":")
          /\ ret.current_group = <<>>
          /\ ret.pending_title = <<>>

\* A topic heading was read after a section had been set, and a link
\* followed it.
C28_Witness ==
    /\ ret.pos = 3
    /\ IsSectionHeading(Strip(args[1]))
    /\ IsTopicHeading(Strip(args[2]))
    /\ IsBullet(LineRead)
    /\ ret.topic = <<"U">>

IsHeadingUrl(line) == StartsWith(line, <<"#", "#", "#", " ", "h", "t", "t", "p">>)

AnchorIn(line) == IF FirstIndex(line, "#") = 0 THEN <<>> ELSE Strip(Drop(line, FirstIndex(line, "#")))

UrlIn(line) == IF FirstIndex(line, "#") = 0 THEN line ELSE Strip(SubSeq(line, 1, FirstIndex(line, "#") - 1))

\* C29: the link emitted for a third-level heading with a bare URL is titled
\* by the URL's anchor when there is one, else by the pending label when
\* one is set, else by the URL.
C29_AnchorBeforePendingLabel ==
    [][(ret'.pos = ret.pos + 1 /\ IsHeadingUrl(Strip(args[ret.pos + 1]))) =>
          /\ Len(ret'.nodes) = Len(ret.nodes) + 1
          /\ LastNode(ret').node_type = "link"
          /\ LastNode(ret').url = UrlIn(Drop(Strip(args[ret.pos + 1]), 4))
          /\ LastNode(ret').title =
                (IF AnchorIn(Drop(Strip(args[ret.pos + 1]), 4)) # <<>> THEN AnchorIn(Drop(Strip(args[ret.pos + 1]), 4))
                 ELSE IF ret.pending_title # <<>> THEN ret.pending_title
                 ELSE UrlIn(Drop(Strip(args[ret.pos + 1]), 4)))]_vars

\* A heading URL with an anchor was read while a label was pending.
C29_Witness ==
    /\ ret.pos >= 2
    /\ IsHeadingUrl(LineRead)
    /\ AnchorIn(Drop(LineRead, 4)) # <<>>
    /\ Strip(args[ret.pos - 1]) = <<"#", "#", "#", " ", "G">>
    /\ LastNode(ret).node_type = "link"

Searchin == <<"s", "e", "a", "r", "c", "h", "i", "n">>

Command == <<"c", "o", "m", "m", "a", "n", "d">>

\* C30: every node has a non-empty section; every query node has an exec
\* title that is empty or begins with `>` or `??`, and its kind is topic_nav
\* under a searchin section, kb_search under a command section, and
\* otherwise topic_lookup for `??` and query for `>`.
C30_NodesWellFormed ==
    \A i \in 1..Len(ret.nodes) :
        /\ ret.nodes[i].section # <<>>
        /\ ret.nodes[i].node_type = "query" =>
              /\ \/ ret.nodes[i].query_exec_title = <<>>
                 \/ StartsWith(ret.nodes[i].query_exec_title, <<">">>)
                 \/ StartsWith(ret.nodes[i].query_exec_title, <<"?", "?">>)
              /\ ret.nodes[i].query_kind =
                    (IF StartsWith(ret.nodes[i].query_source, Searchin) THEN "topic_nav"
                     ELSE IF StartsWith(ret.nodes[i].query_source, Command) THEN "kb_search"
                     ELSE IF StartsWith(ret.nodes[i].query_exec_title, <<"?", "?">>) THEN "topic_lookup"
                     ELSE IF StartsWith(ret.nodes[i].query_exec_title, <<">">>) THEN "query"
                     ELSE ret.nodes[i].query_kind)

\* A section heading that names nothing was followed by a query outside
\* the named sections, and an earlier query stood under searchin.
C30_Witness ==
    /\ ret.pos = Len(args)
    /\ \E i, j \in 1..Len(ret.nodes) :
          /\ ret.nodes[i].query_kind = "topic_nav"
          /\ ret.nodes[j].query_kind \in {"query", "topic_lookup"}
          /\ ret.nodes[j].section = Root

(***************************************************************************)
(* search_index: the related-section pass.                                 *)
(***************************************************************************)

\* The rows the related-section pass owes to the direct hit h: the rows of
\* h's topic and section that are no category, the shortest first, as many
\* as the per-section limit allows.
OwedTo(h) ==
    {r \in Store :
        /\ r.topic = h.topic
        /\ r.section = h.section
        /\ r.node_type # "category"
        /\ Cardinality({q \in Store : q.topic = h.topic /\ q.section = h.section /\ q.node_type # "category" /\ q.content_len < r.content_len}) < Max2(1, args.related_limit_per_section)}

\* C31: with expand_related_sections set, every direct hit of type link has
\* the rows of its topic and section in the result, tagged section_related
\* unless they were in the result before, whatever expand_categories is.
C31_RelatedWheneverEnabled ==
    (called /\ args.expand_related_sections) =>
        \A i \in DOMAIN args.rows :
            args.rows[i].node_type = "link" =>
                \A r \in OwedTo(args.rows[i]) :
                    \E j \in DOMAIN ret :
                        /\ ret[j].node_id = r.node_id
                        /\ ret[j].match_type \in {"direct", "category_child", "section_related"}

\* A link was hit with related expansion on and category expansion off,
\* and a row of its section was not among the direct hits.
C31_Witness ==
    /\ called
    /\ args.expand_related_sections
    /\ ~args.expand_categories
    /\ \E i \in DOMAIN args.rows :
          /\ args.rows[i].node_type = "link"
          /\ \E r \in OwedTo(args.rows[i]) : \A k \in DOMAIN args.rows : args.rows[k] # r

\* The same with expand_categories set: what the code does hold to.
C31_RelatedWhenCategoriesOn == args.expand_categories => C31_RelatedWheneverEnabled

(***************************************************************************)
(* explore_loop: the time budget.                                          *)
(***************************************************************************)

InExpansion == pc \in {"searchin", "command", "backlink"}

\* A check of the loop (pc = "loop") that reads a clock at or beyond the
\* budget takes nothing from the frontier and calls nothing: the loop ends,
\* with time_budget_exhausted when the frontier is not empty.
TimeCheckStops ==
    (pc = "loop" /\ max_seconds > 0 /\ elapsed' >= max_seconds) =>
        /\ queue' = queue
        /\ calls' = calls
        /\ pc' = "done"
        /\ queue # <<>> => stop_reason' = "time_budget_exhausted"

\* Inside a step no budget is tested: the step goes on to its next call or
\* to its enqueues, and the loop does not end there.
StepRunsOn ==
    InExpansion =>
        /\ pc' \in {"command", "backlink", "loop"}
        /\ Len(calls') = Len(calls) + 1
        /\ stop_reason' = stop_reason
        /\ pc' = "loop" => (Len(trace') = Len(trace) + 1 /\ LastHop(trace').status = "expanded")

\* C32: with a time budget, no item is dequeued and no primary call started
\* at a check where the budget is used up; a step that has started its
\* expansion completes it: section fetches, backlink lookup and enqueues.
C32_TimeBudgetBetweenSteps ==
    /\ [][TimeCheckStops /\ StepRunsOn]_vars
    /\ (pc = "searchin") ~> (pc = "loop" /\ trace # <<>> /\ LastHop(trace).status = "expanded")

\* The run stopped on the time budget after a step had been expanded.
C32_Witness ==
    /\ pc = "done"
    /\ stop_reason = "time_budget_exhausted"
    /\ queue # <<>>
    /\ trace # <<>>
    /\ LastHop(trace).status = "expanded"

(***************************************************************************)
(* iterative_search: the gain of a round.                                  *)
(***************************************************************************)

LastRound(rs) == rs[Len(rs)]

\* The round just recorded has as gain the number of node ids it saw for
\* the first time over the limit.
GainIsNewOverLimit ==
    /\ LastRound(rounds').gain.den = limit
    /\ LastRound(rounds').gain.num = Cardinality(seen_node_ids' \ seen_node_ids)
    /\ LastRound(rounds').gain.num >= 0
    /\ LastRound(rounds').gain.num <= LastRound(rounds').hits

\* C33 as stated: with limit > 0 the gain of every round is the number of
\* node ids not seen earlier over the limit, and lies between 0 and 1.
C33_GainIsUnitFraction ==
    [][(rounds' # rounds /\ limit > 0) =>
          /\ GainIsNewOverLimit
          /\ LastRound(rounds').gain.num <= LastRound(rounds').gain.den]_vars

\* C33 amended: the gain is that quotient and is not negative; it is at most
\* (hits of the round) / limit, which is above 1 when the search answers
\* more hits than limit.
C33_GainIsNewHitsOverLimit ==
    [][(rounds' # rounds /\ limit > 0) => GainIsNewOverLimit]_vars

\* A round whose gain is above 1.
C33_Witness ==
    /\ limit > 0
    /\ \E i \in DOMAIN rounds : rounds[i].gain.num > rounds[i].gain.den /\ rounds[i].gain.den = limit

\* search_index, as iterative_search calls it (both expansions on), answers
\* more rows than the limit it was given: a state SpecSearch reaches.
SearchAnswersBeyondLimit ==
    /\ called
    /\ args.limit > 0
    /\ args.expand_categories
    /\ args.expand_related_sections
    /\ Len(ret) > args.limit

(***************************************************************************)
(* explore_loop: no retry.                                                 *)
(***************************************************************************)

PrimaryCalls == {i \in DOMAIN calls : calls[i].kind = "primary"}

\* C34: in one run no two primary calls are made for the same non-empty
\* canonical input key, whatever the first call returned.
C34_OneCallPerKey ==
    \A i, j \in PrimaryCalls :
        (i < j /\ InputKey(calls[i].input) # <<>>) => InputKey(calls[i].input) # InputKey(calls[j].input)

\* A call failed, and an item with the same key, enqueued by an expansion
\* of this run, was later dequeued and skipped.
C34_Witness ==
    /\ visited_exec # {}
    /\ \E i \in PrimaryCalls, k \in DOMAIN trace :
          /\ calls[i].returncode # 0
          /\ trace[k].status = "skipped_visited_exec"
          /\ trace[k].depth >= 1
          /\ InputKey(trace[k].input) = InputKey(calls[i].input)

(***************************************************************************)
(* The explore-loop command: the visited files.                            *)
(***************************************************************************)

\* C35: after a run with --update-visited each visited file holds every key
\* that was loaded from it and every key marked visited during the run.
C35_VisitedOnlyGrows ==
    (called /\ args.update_visited) =>
        /\ load_visited("exec", args.visited_file) \subseteq Range(ret.visited_file.items)
        /\ visited_exec \subseteq Range(ret.visited_file.items)
        /\ load_visited("topic", args.visited_topics_file) \subseteq Range(ret.visited_topics_file.items)
        /\ visited_topics \subseteq Range(ret.visited_topics_file.items)

\* What the code holds to: the same for a run with a valid seed that ends
\* with no more keys than the report lists.
C35_GrowsUpToCap ==
    (status = "ok" /\ Cardinality(visited_exec) <= VisitedReportCap /\ Cardinality(visited_topics) <= VisitedReportCap)
        => C35_VisitedOnlyGrows

\* A run with a valid seed ended with more exec keys than the report lists,
\* and the files were rewritten.
C35_Witness ==
    /\ called
    /\ args.update_visited
    /\ status = "ok"
    /\ steps_executed >= 1
    /\ Cardinality(visited_exec) > VisitedReportCap
    /\ Len(ret.visited_file.items) = VisitedReportCap

(***************************************************************************)
(* explore_loop: how often a root topic is expanded.                       *)
(***************************************************************************)

SectionCalls(kind) == {i \in DOMAIN calls : calls[i].kind = kind}

\* The canonical key of the root topic a section call asks for.
CallTopicKey(c) == _canonical_topic_key(root_topic_from_title(InputTitle(c.input)))

FetchedOnce(kind) ==
    \A i, j \in SectionCalls(kind) : i < j => CallTopicKey(calls[i]) # CallTopicKey(calls[j])

\* C36: in one run the searchin section and the command section of a root
\* topic are each fetched at most once.
C36_RootTopicExpandedOnce == FetchedOnce("searchin") /\ FetchedOnce("command")

\* A kb_search item was executed after the expansion of its own root topic
\* and expanded that topic again.
C36_Witness ==
    \E i, j \in DOMAIN trace :
        /\ i < j
        /\ trace[i].status = "expanded"
        /\ trace[j].status = "expanded"
        /\ trace[j].via # "seed"
        /\ _canonical_topic_key(trace[i].root_topic) = _canonical_topic_key(trace[j].root_topic)
        /\ CallCount("searchin") >= 2

(***************************************************************************)
(* explore_loop: termination.                                              *)
(***************************************************************************)

\* A loop iteration starts: the exit test lets the body run.
IterationStarts == pc = "loop" /\ pc' # "done"

ConsumesStep == steps_executed' = steps_executed + 1

DropsHead == steps_executed' = steps_executed /\ queue' = Tail(queue)

\* C37: every run of explore_loop ends, with the time budget disabled too:
\* each loop iteration consumes one step or takes the head off the frontier
\* without adding an item, and the steps never exceed max_steps.
C37_LoopTerminates ==
    /\ [][IterationStarts => (ConsumesStep \/ DropsHead)]_vars
    /\ [](steps_executed <= max_steps)
    /\ <>(pc = "done")

\* A run without time budget has ended after a step and a dropped item.
C37_Witness ==
    /\ pc = "done"
    /\ max_seconds = 0
    /\ steps_executed >= 1
    /\ \E k \in DOMAIN trace : trace[k].status = "skipped_visited_exec"

(***************************************************************************)
(* iterative_search: a query is searched once.                             *)
(***************************************************************************)

\* C38: no query string is searched in two rounds of one run, the seed
\* query included.
C38_NoQuerySearchedTwice == NoDuplicates(SearchedQueries)

\* What the code holds to: among the rounds after the first no query is
\* searched twice.
C38_NoRepeatAfterSeedRound == rounds # <<>> => NoDuplicates(Tail(SearchedQueries))

\* A hit of the first round carried the seed as its query_cmd, and a later
\* round searched the seed again.
C38_Witness ==
    /\ follow_query_nodes
    /\ Len(rounds) >= 2
    /\ rounds[1].query \in Range(rounds[1].expanded_queries)
    /\ \E i \in 2..Len(rounds) : rounds[i].query = rounds[1].query

(***************************************************************************)
(* The key canonicalizers applied twice.                                   *)
(***************************************************************************)

\* C39: both canonicalizers are idempotent, and a non-empty key is unchanged
\* by saving it and loading it back.
C39_CanonicalizersIdempotent ==
    called =>
        /\ ret.twice = ret.once
        /\ ret.once # <<>> => ret.reloaded = {ret.once}

\* What the code holds to: a key without a trailing colon (exec) or a
\* trailing blank (topic) is a fixed point and survives the reload.
C39_IdempotentOnClosedKeys ==
    (called /\ ret.once # <<>> /\ ret.once[Len(ret.once)] \notin {":", " "}) =>
        /\ ret.twice = ret.once
        /\ ret.reloaded = {ret.once}

\* An exec key that still ends with a colon: the second application cuts it.
C39_Witness ==
    /\ called
    /\ args.which = "exec"
    /\ ret.once = <<"b", ":">>
    /\ ret.twice = <<"b">>
    /\ ret.reloaded = {<<"b">>}

\* A topic key that ends with a blank: the second application strips it.
C39_TopicKeyWitness ==
    /\ called
    /\ args.which = "topic"
    /\ ret.once = <<"b", " ">>
    /\ ret.twice = <<"b">>

(***************************************************************************)
(* build_explore_candidates: one candidate per exec key.                   *)
(***************************************************************************)

\* The place of a source in the merge: searchin, command, backlink.
MergeRank(source) ==
    CASE source = "searchin_section" -> 1 [] source = "command_section" -> 2 [] OTHER -> 3

CandKey(c) == _canonical_edge_key(c.query_exec_title)

\* The entries a navigation payload offers to the merge.
NavOffers(nav) == Range(build_navigation_candidates(nav, "topic_first", c_in.include_other_queries))

NavOfSource(source) == IF source = "searchin_section" THEN c_in.searchin ELSE c_in.command

\* The source offers an entry (a backlink input) with the exec key.
OfferedBy(source, key) ==
    IF source = "backlink"
    THEN \E i \in DOMAIN c_in.backlinks :
            Strip(c_in.backlinks[i]) # <<>> /\ _canonical_edge_key(InputTitle(Strip(c_in.backlinks[i]))) = key
    ELSE \E item \in NavOffers(NavOfSource(source)) : _canonical_edge_key(Strip(item.query_exec_title)) = key

\* The source offers an entry with the exec key that the topic-level visited
\* filter lets through.
OfferedUnfiltered(source, key) ==
    IF source = "backlink"
    THEN \E i \in DOMAIN c_in.backlinks :
            /\ Strip(c_in.backlinks[i]) # <<>>
            /\ _canonical_edge_key(InputTitle(Strip(c_in.backlinks[i]))) = key
            /\ ~TopicVisited(TopicKeyOfTitle(InputTitle(Strip(c_in.backlinks[i]))), c_in.visited_topics)
    ELSE \E item \in NavOffers(NavOfSource(source)) :
            /\ _canonical_edge_key(Strip(item.query_exec_title)) = key
            /\ ~TopicFiltered(KindOf(item), TopicKeyOfTitle(Strip(item.query_exec_title)), c_in.visited_topics)

MergeSources == {"searchin_section", "command_section", "backlink"}

OneCandidatePerKey == \A i, j \in DOMAIN c_out : CandKey(c_out[i]) = CandKey(c_out[j]) => i = j

CarriesOwnPriority == \A i \in DOMAIN c_out : c_out[i].priority = SourcePriority(c_in.edge_strategy, c_out[i].source)

\* C40 as stated: no two returned candidates share an exec key, and a key
\* offered by several sources is returned with the tag and priority of the
\* first of them in the order searchin, command, backlink.
C40_FirstOfferingSourceSurvives ==
    c_done =>
        /\ OneCandidatePerKey
        /\ CarriesOwnPriority
        /\ \A i \in DOMAIN c_out : \A s \in MergeSources :
              OfferedBy(s, CandKey(c_out[i])) => MergeRank(c_out[i].source) <= MergeRank(s)

\* C40 amended: the same, the first source being the first whose entry for
\* the key passes the topic-level visited filter.
C40_FirstUnfilteredSourceSurvives ==
    c_done =>
        /\ OneCandidatePerKey
        /\ CarriesOwnPriority
        /\ \A i \in DOMAIN c_out : \A s \in MergeSources :
              OfferedUnfiltered(s, CandKey(c_out[i])) => MergeRank(c_out[i].source) <= MergeRank(s)

\* Under the command-first strategy a key offered by the searchin and the
\* command section is returned as the searchin section's candidate, behind
\* another candidate of the command section.
C40_Witness ==
    /\ c_done
    /\ c_in.edge_strategy = "command_searchin_backlink"
    /\ \E i, j \in DOMAIN c_out :
          /\ j < i
          /\ c_out[i].source = "searchin_section"
          /\ c_out[i].priority = 1
          /\ OfferedUnfiltered("command_section", CandKey(c_out[i]))
          /\ c_out[j].source = "command_section"

=============================================================================
